---- MODULE Spec2Model ----
(***************************************************************************)
(* A model of the mp++ multiprecision integer (include/mp++.hpp): the      *)
(* static buffer, the {static, dynamic} union, the limb kernels and the    *)
(* public free functions.  Limbs are GMP_NUMB_BITS wide and there are no   *)
(* nail bits; limb arithmetic is done modulo 2^GMP_NUMB_BITS.  The GMP     *)
(* calls (the mpz and mpn functions) are modelled by their contracts.      *)
(***************************************************************************)
EXTENDS Integers, Sequences, FiniteSets, TLC

VARIABLES SSize, x, old, call, ret, pc, desc, cache, live, tls_mpz

vars == <<SSize, x, old, call, ret, pc, desc, cache, live, tls_mpz>>

\* Width of a limb in bits (64 or 32 in a real build, scaled down here).
GMP_NUMB_BITS == 2

\* static_int::s_alloc, the alloc tag of static storage.
s_alloc == -1

\* static_int::opt_size, the largest size with few-limbs optimisations.
opt_size == 2

\* The static sizes modelled: the 1-limb kernels, the 2-limb kernels and
\* the generic mpn kernels.
SSizes == {1, 2, 3}

LimbBase == 2 ^ GMP_NUMB_BITS

GMP_NUMB_MASK == LimbBase - 1

GMP_NUMB_MAX == LimbBase - 1

Abs(n) == IF n < 0 THEN -n ELSE n

Sgn(n) == IF n > 0 THEN 1 ELSE IF n < 0 THEN -1 ELSE 0

Max(a, b) == IF a >= b THEN a ELSE b

RECURSIVE BitAnd(_, _)
\* The bitwise and of two naturals (the & operator).
BitAnd(a, b) ==
  IF a = 0 \/ b = 0 THEN 0
  ELSE (IF a % 2 = 1 /\ b % 2 = 1 THEN 1 ELSE 0) + 2 * BitAnd(a \div 2, b \div 2)

RECURSIVE LimbsValue(_, _)
\* The natural number held by the n lowest limbs of a limb array.
LimbsValue(limbs, n) ==
  IF n = 0 THEN 0
  ELSE limbs[n] * LimbBase ^ (n - 1) + LimbsValue(limbs, n - 1)

\* The n lowest limbs of the natural number v.
ToLimbs(v, n) == [i \in 1..n |-> (v \div LimbBase ^ (i - 1)) % LimbBase]

RECURSIVE NumLimbs(_)
\* The number of limbs of the natural number v (mpz_size of an mpz holding it).
NumLimbs(v) == IF v = 0 THEN 0 ELSE 1 + NumLimbs(v \div LimbBase)

\* limbs with the entries from index `from` (0-based) on replaced by `new`.
WriteLimbs(limbs, from, new) ==
  [i \in 1..Len(limbs) |->
     IF i > from /\ i <= from + Len(new) THEN new[i - from] ELSE limbs[i]]

\* The mathematical value of an integer object (static buffer or mpz struct).
Value(n) == Sgn(n.size) * LimbsValue(n.limbs, Abs(n.size))

----------------------------------------------------------------------------
(* Limb primitives *)

\* A limb addition that drops the carry.
limb_add_nocarry(a, b) == [res |-> (a + b) % LimbBase, cy |-> 0]

limb_add_overflow(a, b) ==
  LET res == (a + b) % LimbBase
  IN  [res |-> res, cy |-> IF res < a THEN 1 ELSE 0]

\* A limb product that drops the high limb.
dlimb_mul_low(op1, op2) == [lo |-> (op1 * op2) % LimbBase, hi |-> 0]

dlimb_mul(op1, op2) ==
  [lo |-> (op1 * op2) % LimbBase, hi |-> ((op1 * op2) \div LimbBase) % LimbBase]

\* A double-limb division that drops the remainder.
dlimb_div_norem(op11, op12, op21, op22) ==
  LET n1 == op11 + op12 * LimbBase
      n2 == op21 + op22 * LimbBase
  IN  [q1 |-> (n1 \div n2) % LimbBase, q2 |-> (n1 \div n2) \div LimbBase,
       r1 |-> 0, r2 |-> 0]

dlimb_div(op11, op12, op21, op22) ==
  LET op1 == op11 + op12 * LimbBase
      op2 == op21 + op22 * LimbBase
      q == op1 \div op2
      r == op1 % op2
  IN  [q1 |-> q % LimbBase, q2 |-> (q \div LimbBase) % LimbBase,
       r1 |-> r % LimbBase, r2 |-> (r \div LimbBase) % LimbBase]

\* Unsigned limb subtraction a - b, wrapping around.
LimbSub(a, b) == (a - b) % LimbBase

(* The mpn functions of the backend, by contract. *)

mpn_add(data1, n1, data2, n2) ==
  LET s == LimbsValue(data1, n1) + LimbsValue(data2, n2)
  IN  [r |-> ToLimbs(s, n1), cy |-> s \div LimbBase ^ n1]

mpn_add_1(data1, n1, l) ==
  LET s == LimbsValue(data1, n1) + l
  IN  [r |-> ToLimbs(s, n1), cy |-> s \div LimbBase ^ n1]

mpn_sub(data1, n1, data2, n2) ==
  LET d == LimbsValue(data1, n1) - LimbsValue(data2, n2)
  IN  [r |-> ToLimbs(d % LimbBase ^ n1, n1), br |-> IF d < 0 THEN 1 ELSE 0]

mpn_sub_1(data1, n1, l) ==
  LET d == LimbsValue(data1, n1) - l
  IN  [r |-> ToLimbs(d % LimbBase ^ n1, n1), br |-> IF d < 0 THEN 1 ELSE 0]

mpn_add_n(data1, data2, n) == mpn_add(data1, n, data2, n)

mpn_sub_n(data1, data2, n) == mpn_sub(data1, n, data2, n)

\* A comparison that looks at the lowest limb only.
mpn_cmp_low(data1, data2, n) ==
  IF data1[1] > data2[1] THEN 1 ELSE IF data1[1] < data2[1] THEN -1 ELSE 0

mpn_cmp(data1, data2, n) ==
  LET a == LimbsValue(data1, n)
      b == LimbsValue(data2, n)
  IN  IF a > b THEN 1 ELSE IF a < b THEN -1 ELSE 0

\* mpn_mul_1, mpn_mul_n and mpn_mul: the n1 + n2 limbs of the product.
mpn_mul(data1, n1, data2, n2) ==
  ToLimbs(LimbsValue(data1, n1) * LimbsValue(data2, n2), n1 + n2)

\* mpn_divrem_1 and mpn_tdiv_qr: n1 - n2 + 1 quotient limbs, n2 remainder limbs.
mpn_tdiv_qr(data1, n1, data2, n2) ==
  LET a == LimbsValue(data1, n1)
      b == LimbsValue(data2, n2)
  IN  [q |-> ToLimbs(a \div b, n1 - n2 + 1), r |-> ToLimbs(a % b, n2)]

----------------------------------------------------------------------------
(* static_int *)

\* static_int(): a static zero with zeroed limbs.
static_int == [alloc |-> s_alloc, size |-> 0, limbs |-> [i \in 1..SSize |-> 0]]

abs_size(n) == IF n.size >= 0 THEN n.size ELSE -n.size

dtor_checks(n) ==
  LET asize == abs_size(n)
  IN  /\ n.alloc = s_alloc
      /\ asize <= SSize
      /\ (SSize <= opt_size => \A i \in (asize + 1)..SSize : n.limbs[i] = 0)
      /\ (asize > 0 => BitAnd(n.limbs[asize], GMP_NUMB_MASK) # 0)

zero_unused_limbs(n) ==
  IF SSize <= opt_size
  THEN [n EXCEPT !.limbs = [i \in 1..SSize |-> IF i > abs_size(n) THEN 0 ELSE n.limbs[i]]]
  ELSE n

\* static_mpz_view: an mpz struct over the limbs of a static, alloc = s_size.
get_mpz_view(n) == [alloc |-> SSize, size |-> n.size, limbs |-> n.limbs]

is_static(n) == n.alloc = s_alloc

is_dynamic(n) == n.alloc # s_alloc

\* mp_integer::mpz_view: the static view, or the dynamic struct itself.
mpz_view(n) == IF is_static(n) THEN get_mpz_view(n) ELSE n

----------------------------------------------------------------------------
(* The mpz functions of the backend, by contract.  An mpz struct holds its *)
(* |size| active limbs; a write reallocates when alloc is too small.       *)

\* An mpz struct with the alloc of rop (grown to `need` limbs) holding v.
mpz_of(rop, v, need) ==
  LET n == NumLimbs(Abs(v))
  IN  [alloc |-> Max(rop.alloc, Max(need, n)), size |-> Sgn(v) * n,
       limbs |-> ToLimbs(Abs(v), n)]

mpz_size(m) == Abs(m.size)

mpz_set(rop, m) == mpz_of(rop, Value(m), mpz_size(m))

mpz_add(rop, m1, m2) ==
  mpz_of(rop, Value(m1) + Value(m2), Max(mpz_size(m1), mpz_size(m2)) + 1)

mpz_sub(rop, m1, m2) ==
  mpz_of(rop, Value(m1) - Value(m2), Max(mpz_size(m1), mpz_size(m2)) + 1)

mpz_mul(rop, m1, m2) ==
  mpz_of(rop, Value(m1) * Value(m2), mpz_size(m1) + mpz_size(m2))

\* mpz_init_nlimbs / mpz_cache::pop: an mpz with at least nlimbs limbs
\* allocated (mpz_init2 allocates at least one limb); its value is whatever
\* the cached mpz held and is overwritten by the caller.
mpz_init_cache(nlimbs) == [alloc |-> Max(1, nlimbs), size |-> 0, limbs |-> <<>>]

mpz_init_set_cache(m1) == mpz_set(mpz_init_cache(mpz_size(m1)), m1)

----------------------------------------------------------------------------
(* integer_union *)

\* integer_union::promote(nlimbs): the dynamic struct that replaces a static.
promote(n, nlimbs) ==
  LET v == get_mpz_view(n)
  IN  IF nlimbs = 0 THEN mpz_init_set_cache(v)
      ELSE mpz_set(mpz_init_cache(nlimbs), v)

\* A demotion that keeps the magnitude and drops the sign.
demote_unsigned(n) ==
  IF mpz_size(n) > SSize THEN [ok |-> FALSE, n |-> n]
  ELSE [ok |-> TRUE,
        n |-> [alloc |-> s_alloc, size |-> mpz_size(n),
               limbs |-> [i \in 1..SSize |-> IF i <= mpz_size(n) THEN n.limbs[i] ELSE 0]]]

\* integer_union::demote(): [ok, n]; a dynamic of more than SSize limbs
\* stays as it is, else its limbs and signed size go to a fresh static.
demote(n) ==
  IF mpz_size(n) > SSize THEN [ok |-> FALSE, n |-> n]
  ELSE [ok |-> TRUE,
        n |-> [alloc |-> s_alloc, size |-> n.size,
               limbs |-> [i \in 1..SSize |-> IF i <= mpz_size(n) THEN n.limbs[i] ELSE 0]]]

\* A public promote() that promotes whatever the storage.
mp_integer_promote_always(n) ==
  [err |-> "none", n |-> IF is_static(n) THEN promote(n, 0) ELSE n]

\* mp_integer::promote(): [err, n]; throws on a dynamic integer.
mp_integer_promote(n) ==
  IF is_dynamic(n) THEN [err |-> "invalid_argument", n |-> n]
  ELSE [err |-> "none", n |-> promote(n, 0)]

----------------------------------------------------------------------------
(* Addition and subtraction *)

static_add_algo == IF SSize = 1 THEN 1 ELSE IF SSize = 2 THEN 2 ELSE 0

RECURSIVE sub_compute_size(_, _)
sub_compute_size(rdata, s) ==
  IF s = 0 THEN 0
  ELSE IF BitAnd(rdata[s], GMP_NUMB_MASK) # 0 THEN s
  ELSE sub_compute_size(rdata, s - 1)

\* A pre-check that lets every operand through.
TopBitIgnored(data, asize) == FALSE

\* The top bit of the top limb of a full static buffer is set.
TopBitSet(data, asize) ==
  asize = SSize /\ BitAnd(data[asize], GMP_NUMB_MASK) \div 2 ^ (GMP_NUMB_BITS - 1) # 0

\* static_add_impl, mpn implementation (integral_constant<int, 0>).
static_add_impl_0(rop, op1, op2, asize1, asize2, sign1, sign2) ==
  LET rdata == rop.limbs
      data1 == op1.limbs
      data2 == op2.limbs
      size1 == op1.size
      size2 == op2.size
      Out(sz, limbs) == [ok |-> TRUE, rop |-> [rop EXCEPT !.size = sz, !.limbs = limbs]]
  IN  IF sign2 = 0
      THEN Out(size1, WriteLimbs(rdata, 0, SubSeq(data1, 1, asize1)))
      ELSE IF sign1 = 0
      THEN Out(size2, WriteLimbs(rdata, 0, SubSeq(data2, 1, asize2)))
      ELSE IF TopBitSet(data1, asize1) \/ TopBitSet(data2, asize2)
      THEN [ok |-> FALSE, rop |-> rop]
      ELSE IF sign1 = sign2
      THEN IF asize1 >= asize2
           THEN LET a == IF asize2 = 1 THEN mpn_add_1(data1, asize1, data2[1])
                         ELSE IF asize1 = asize2 THEN mpn_add_n(data1, data2, asize1)
                         ELSE mpn_add(data1, asize1, data2, asize2)
                    w == WriteLimbs(rdata, 0, a.r)
                IN  IF a.cy # 0
                    THEN Out(size1 + sign1, WriteLimbs(w, asize1, <<1>>))
                    ELSE Out(size1, w)
           ELSE LET a == IF asize1 = 1 THEN mpn_add_1(data2, asize2, data1[1])
                         ELSE mpn_add(data2, asize2, data1, asize1)
                    w == WriteLimbs(rdata, 0, a.r)
                IN  IF a.cy # 0
                    THEN Out(size2 + sign2, WriteLimbs(w, asize2, <<1>>))
                    ELSE Out(size2, w)
      ELSE IF asize1 > asize2 \/ (asize1 = asize2 /\ mpn_cmp(data1, data2, asize1) >= 0)
           THEN LET d == IF asize2 = 1 THEN mpn_sub_1(data1, asize1, data2[1])
                         ELSE IF asize1 = asize2 THEN mpn_sub_n(data1, data2, asize1)
                         ELSE mpn_sub(data1, asize1, data2, asize2)
                    w == WriteLimbs(rdata, 0, d.r)
                    sz == sub_compute_size(w, asize1)
                IN  Out(IF sign1 # 1 THEN -sz ELSE sz, w)
           ELSE LET d == IF asize1 = 1 THEN mpn_sub_1(data2, asize2, data1[1])
                         ELSE mpn_sub(data2, asize2, data1, asize1)
                    w == WriteLimbs(rdata, 0, d.r)
                    sz == sub_compute_size(w, asize2)
                IN  Out(IF sign2 # 1 THEN -sz ELSE sz, w)

\* The assertions of the mpn implementation on the path the call takes:
\* assert(asize1 < s_size) and assert(asize2 < s_size) where the limb
\* addition carries, assert(!br) after the limb subtraction.
static_add_impl_0_asserts(op1, op2, asize1, asize2, sign1, sign2) ==
  LET data1 == op1.limbs
      data2 == op2.limbs
  IN  IF sign2 = 0 \/ sign1 = 0 THEN TRUE
      ELSE IF TopBitSet(data1, asize1) \/ TopBitSet(data2, asize2) THEN TRUE
      ELSE IF sign1 = sign2
      THEN IF asize1 >= asize2
           THEN LET a == IF asize2 = 1 THEN mpn_add_1(data1, asize1, data2[1])
                         ELSE IF asize1 = asize2 THEN mpn_add_n(data1, data2, asize1)
                         ELSE mpn_add(data1, asize1, data2, asize2)
                IN  a.cy # 0 => asize1 < SSize
           ELSE LET a == IF asize1 = 1 THEN mpn_add_1(data2, asize2, data1[1])
                         ELSE mpn_add(data2, asize2, data1, asize1)
                IN  a.cy # 0 => asize2 < SSize
      ELSE IF asize1 > asize2 \/ (asize1 = asize2 /\ mpn_cmp(data1, data2, asize1) >= 0)
           THEN LET d == IF asize2 = 1 THEN mpn_sub_1(data1, asize1, data2[1])
                         ELSE IF asize1 = asize2 THEN mpn_sub_n(data1, data2, asize1)
                         ELSE mpn_sub(data1, asize1, data2, asize2)
                IN  d.br = 0
           ELSE LET d == IF asize1 = 1 THEN mpn_sub_1(data2, asize2, data1[1])
                         ELSE mpn_sub(data2, asize2, data1, asize1)
                IN  d.br = 0


\* static_add_impl, single-limb optimisation (integral_constant<int, 1>).
static_add_impl_1(rop, op1, op2, asize1, asize2, sign1, sign2) ==
  LET data1 == op1.limbs
      data2 == op2.limbs
      Out(sz, l0) == [ok |-> TRUE, rop |-> [rop EXCEPT !.size = sz, !.limbs[1] = l0]]
  IN  IF sign1 = sign2
      THEN LET t == limb_add_overflow(data1[1], data2[1])
           IN  IF t.cy # 0 THEN [ok |-> FALSE, rop |-> rop]
               ELSE Out(sign1, t.res)
      ELSE IF data1[1] >= data2[1]
           THEN LET tmp == LimbSub(data1[1], data2[1])
                IN  Out(IF tmp = 0 THEN 0 ELSE sign1, tmp)
           ELSE Out(sign2, LimbSub(data2[1], data1[1]))

compare_limbs_2(data1, data2, asize) ==
  IF data1[asize] # data2[asize]
  THEN (IF data1[asize] > data2[asize] THEN 1 ELSE -1)
  ELSE IF asize - 1 = 0 THEN 0
  ELSE IF data1[asize - 1] # data2[asize - 1]
  THEN (IF data1[asize - 1] > data2[asize - 1] THEN 1 ELSE -1)
  ELSE 0

\* static_add_impl, two-limbs optimisation (integral_constant<int, 2>).
static_add_impl_2(rop, op1, op2, asize1, asize2, sign1, sign2) ==
  LET data1 == op1.limbs
      data2 == op2.limbs
      Out(sz, lo, hi) == [ok |-> TRUE, rop |-> [rop EXCEPT !.size = sz, !.limbs = <<lo, hi>>]]
  IN  IF sign1 = sign2
      THEN LET lo == limb_add_overflow(data1[1], data2[1])
               hi1 == limb_add_overflow(data1[2], data2[2])
               hi2 == limb_add_overflow(hi1.res, lo.cy)
           IN  IF hi1.cy # 0 \/ hi2.cy # 0 THEN [ok |-> FALSE, rop |-> rop]
               ELSE Out(IF hi2.res # 0 THEN sign1 + sign1 ELSE sign1, lo.res, hi2.res)
      ELSE IF asize1 > asize2 \/ (asize1 = asize2 /\ compare_limbs_2(data1, data2, asize1) >= 0)
           THEN LET lo == LimbSub(data1[1], data2[1])
                    hi == LimbSub(LimbSub(data1[2], data2[2]),
                                  IF data1[1] < data2[1] THEN 1 ELSE 0)
                IN  Out(IF hi # 0 THEN sign1 + sign1 ELSE IF lo # 0 THEN sign1 ELSE 0, lo, hi)
           ELSE LET lo == LimbSub(data2[1], data1[1])
                    hi == LimbSub(LimbSub(data2[2], data1[2]),
                                  IF data2[1] < data1[1] THEN 1 ELSE 0)
                IN  Out(IF hi # 0 THEN sign2 + sign2 ELSE sign2, lo, hi)

\* static_addsub<AddOrSub>: [ok, rop], rop being the buffer left in rop.
static_addsub(AddOrSub, rop, op1, op2) ==
  LET s2 == IF AddOrSub THEN op2.size ELSE -op2.size
      asize1 == Abs(op1.size)
      asize2 == Abs(s2)
      sign1 == Sgn(op1.size)
      sign2 == Sgn(s2)
      k == IF static_add_algo = 1
           THEN static_add_impl_1(rop, op1, op2, asize1, asize2, sign1, sign2)
           ELSE IF static_add_algo = 2
           THEN static_add_impl_2(rop, op1, op2, asize1, asize2, sign1, sign2)
           ELSE static_add_impl_0(rop, op1, op2, asize1, asize2, sign1, sign2)
  IN  IF static_add_algo = 0 /\ k.ok
      THEN [ok |-> TRUE, rop |-> zero_unused_limbs(k.rop)]
      ELSE k

\* The assertions static_addsub<AddOrSub> passes through: those of the mpn
\* implementation (the 1-limb and 2-limb kernels assert nothing).
static_addsub_asserts(AddOrSub, op1, op2) ==
  IF static_add_algo # 0 THEN TRUE
  ELSE static_add_impl_0_asserts(op1, op2, Abs(op1.size), Abs(op2.size), Sgn(op1.size),
                                 IF AddOrSub THEN Sgn(op2.size) ELSE -Sgn(op2.size))


\* The objects m with object i promoted if it is static ("if (sr) promote").
promote_if_static(m, i, nlimbs) ==
  IF is_static(m[i]) THEN [m EXCEPT ![i] = promote(m[i], nlimbs)] ELSE m

\* An mpz call that clears rop before it reads the operands.
addsub_mpz_cleared(AddOrSub, m, r, a, b, kernel) ==
  [m |-> [m EXCEPT ![r] =
            IF AddOrSub
            THEN mpz_add(m[r], mpz_view([m EXCEPT ![r] = mpz_of(m[r], 0, 0)][a]),
                               mpz_view([m EXCEPT ![r] = mpz_of(m[r], 0, 0)][b]))
            ELSE mpz_sub(m[r], mpz_view([m EXCEPT ![r] = mpz_of(m[r], 0, 0)][a]),
                               mpz_view([m EXCEPT ![r] = mpz_of(m[r], 0, 0)][b]))],
   err |-> "none", kernel |-> kernel, hint |-> 0]

\* The tail of add() and sub(): the mpz call on the dynamic rop.
addsub_mpz(AddOrSub, m, r, a, b, kernel) ==
  [m |-> [m EXCEPT ![r] = IF AddOrSub
                          THEN mpz_add(m[r], mpz_view(m[a]), mpz_view(m[b]))
                          ELSE mpz_sub(m[r], mpz_view(m[a]), mpz_view(m[b]))],
   err |-> "none", kernel |-> kernel, hint |-> 0]

\* add() and sub() when all three are static: k is what the kernel returned;
\* on failure rop is promoted to SSize + 1 limbs.
addsub_static(AddOrSub, m, r, a, b, k) ==
  IF k.ok
  THEN [m |-> [m EXCEPT ![r] = k.rop], err |-> "none", kernel |-> "ok", hint |-> 0]
  ELSE addsub_mpz(AddOrSub, [m EXCEPT ![r] = promote(k.rop, SSize + 1)], r, a, b, "fail")

\* The common body of add() and sub() on the objects m: the kernel when all
\* three are static, else (or on failure) promotion of rop and the mpz call.
addsub(AddOrSub, m, r, a, b) ==
  IF is_static(m[r]) /\ is_static(m[a]) /\ is_static(m[b])
  THEN addsub_static(AddOrSub, m, r, a, b, static_addsub(AddOrSub, m[r], m[a], m[b]))
  ELSE addsub_mpz(AddOrSub, promote_if_static(m, r, SSize + 1), r, a, b, "none")

add(m, r, a, b) == addsub(TRUE, m, r, a, b)

sub(m, r, a, b) == addsub(FALSE, m, r, a, b)

----------------------------------------------------------------------------
(* Multiplication *)

\* have_dlimb_mul holds (a double-limb type exists): 1 and 2 limbs are optimised.
static_mul_algo == IF SSize = 1 THEN 1 ELSE IF SSize = 2 THEN 2 ELSE 0

\* static_mul_impl, mpn implementation.  overlap: rop is the same object as
\* op1 or op2 (rdata == data1 or rdata == data2).  Returns [hint, rop].
static_mul_impl_0(rop, op1, op2, asize1, asize2, sign1, sign2, overlap) ==
  IF sign1 = 0 \/ sign2 = 0 THEN [hint |-> 0, rop |-> [rop EXCEPT !.size = 0]]
  ELSE
    LET rdata == rop.limbs
        max_asize == asize1 + asize2
        direct == ~overlap /\ max_asize <= SSize
        res == mpn_mul(op1.limbs, asize1, op2.limbs, asize2)
        hi == res[max_asize]
        asize == max_asize - (IF hi = 0 THEN 1 ELSE 0)
        sz == IF sign1 # sign2 THEN -asize ELSE asize
    IN  IF direct
        THEN [hint |-> 0, rop |-> [rop EXCEPT !.size = sz, !.limbs = WriteLimbs(rdata, 0, res)]]
        ELSE IF asize > SSize THEN [hint |-> asize, rop |-> rop]
        ELSE [hint |-> 0,
              rop |-> [rop EXCEPT !.size = sz,
                                  !.limbs = WriteLimbs(rdata, 0, SubSeq(res, 1, asize))]]

\* A 1-limb kernel whose hint is the size of an operand.
static_mul_impl_1_short(rop, op1, op2, asize1, asize2, sign1, sign2) ==
  IF dlimb_mul(op1.limbs[1], op2.limbs[1]).hi # 0 THEN [hint |-> asize1, rop |-> rop]
  ELSE [hint |-> 0,
        rop |-> [rop EXCEPT !.size = IF op1.limbs[1] * op2.limbs[1] = 0 THEN 0
                                     ELSE IF sign1 # sign2 THEN -1 ELSE 1,
                            !.limbs[1] = op1.limbs[1] * op2.limbs[1]]]

\* static_mul_impl, 1-limb optimisation via dlimb_mul.
static_mul_impl_1(rop, op1, op2, asize1, asize2, sign1, sign2) ==
  LET p == dlimb_mul(op1.limbs[1], op2.limbs[1])
      asize == IF p.lo # 0 THEN 1 ELSE 0
  IN  IF p.hi # 0 THEN [hint |-> 2, rop |-> rop]
      ELSE [hint |-> 0,
            rop |-> [rop EXCEPT !.size = IF sign1 # sign2 THEN -asize ELSE asize,
                                !.limbs[1] = p.lo]]

\* static_mul_impl, 2-limb optimisation via dlimb_mul.
static_mul_impl_2(rop, op1, op2, asize1, asize2, sign1, sign2) ==
  IF asize1 = 0 \/ asize2 = 0
  THEN [hint |-> 0, rop |-> [rop EXCEPT !.size = 0, !.limbs = <<0, 0>>]]
  ELSE IF asize1 = 1 /\ asize2 = 1
  THEN LET p == dlimb_mul(op1.limbs[1], op2.limbs[1])
           asize == (asize1 + asize2) - (IF p.hi = 0 THEN 1 ELSE 0)
       IN  [hint |-> 0,
            rop |-> [rop EXCEPT !.size = IF sign1 # sign2 THEN -asize ELSE asize,
                                !.limbs = <<p.lo, p.hi>>]]
  ELSE IF asize1 # asize2
  THEN LET a == IF asize1 < asize2 THEN op2.limbs[1] ELSE op1.limbs[1]
           b == IF asize1 < asize2 THEN op2.limbs[2] ELSE op1.limbs[2]
           c == IF asize1 < asize2 THEN op1.limbs[1] ELSE op2.limbs[1]
           ca == dlimb_mul(c, a)
           cb == dlimb_mul(c, b)
           tmp0 == ca.lo
           t1 == limb_add_overflow(cb.lo, ca.hi)
           tmp2 == (cb.hi + t1.cy) % LimbBase
           asize == 2 + (IF tmp2 # 0 THEN 1 ELSE 0)
       IN  IF asize = 2
           THEN [hint |-> 0,
                 rop |-> [rop EXCEPT !.size = IF sign1 # sign2 THEN -asize ELSE asize,
                                     !.limbs = <<tmp0, t1.res>>]]
           ELSE [hint |-> 4, rop |-> rop]
  ELSE [hint |-> 4, rop |-> rop]

\* static_mul: [hint, rop]; hint 0 is success.
static_mul(rop, op1, op2, overlap) ==
  LET asize1 == Abs(op1.size)
      asize2 == Abs(op2.size)
      sign1 == Sgn(op1.size)
      sign2 == Sgn(op2.size)
      k == IF static_mul_algo = 1
           THEN static_mul_impl_1(rop, op1, op2, asize1, asize2, sign1, sign2)
           ELSE IF static_mul_algo = 2
           THEN static_mul_impl_2(rop, op1, op2, asize1, asize2, sign1, sign2)
           ELSE static_mul_impl_0(rop, op1, op2, asize1, asize2, sign1, sign2, overlap)
  IN  IF static_mul_algo = 0 /\ k.hint = 0
      THEN [hint |-> 0, rop |-> zero_unused_limbs(k.rop)]
      ELSE k

\* An mpz call after which a result that fits goes back to static storage.
mul_mpz_demoting(m, r, a, b, kernel, hint) ==
  [m |-> [m EXCEPT ![r] = demote(mpz_mul(m[r], mpz_view(m[a]), mpz_view(m[b]))).n],
   err |-> "none", kernel |-> kernel, hint |-> hint]

\* The tail of mul(): the mpz call on the dynamic rop.
mul_mpz(m, r, a, b, kernel, hint) ==
  [m |-> [m EXCEPT ![r] = mpz_mul(m[r], mpz_view(m[a]), mpz_view(m[b]))],
   err |-> "none", kernel |-> kernel, hint |-> hint]

\* mul() when all three are static: k is what static_mul returned; on
\* failure rop is promoted to the hinted size.
mul_static(m, r, a, b, k) ==
  IF k.hint = 0
  THEN [m |-> [m EXCEPT ![r] = k.rop], err |-> "none", kernel |-> "ok", hint |-> 0]
  ELSE mul_mpz([m EXCEPT ![r] = promote(k.rop, k.hint)], r, a, b, "fail", k.hint)

\* mul() on the objects m.
mul(m, r, a, b) ==
  IF is_static(m[r]) /\ is_static(m[a]) /\ is_static(m[b])
  THEN mul_static(m, r, a, b, static_mul(m[r], m[a], m[b], r = a \/ r = b))
  ELSE mul_mpz(promote_if_static(m, r, 0), r, a, b, "none", 0)

----------------------------------------------------------------------------
(* Fused multiply-add *)

mpz_addmul(rop, m1, m2) ==
  mpz_of(rop, Value(rop) + Value(m1) * Value(m2),
         Max(mpz_size(rop), mpz_size(m1) + mpz_size(m2)) + 1)

static_addmul_algo == IF SSize = 1 THEN 1 ELSE IF SSize = 2 THEN 2 ELSE 0

\* The second half of the mpn static_addmul_impl: p is what static_mul_impl
\* returned for the local prod, k what static_add_impl(rop, rop, prod)
\* returned.  Returns [hint, rop].
static_addmul_impl_0_add(rop, k) ==
  IF ~k.ok THEN [hint |-> SSize + 1, rop |-> k.rop] ELSE [hint |-> 0, rop |-> k.rop]

static_addmul_impl_0_prod(rop, asizer, signr, p) ==
  IF p.hint # 0 THEN [hint |-> SSize * 2 + 1, rop |-> rop]
  ELSE static_addmul_impl_0_add(rop,
         static_add_impl_0(rop, rop, p.rop, asizer, Abs(p.rop.size), signr, Sgn(p.rop.size)))

\* static_addmul_impl, mpn implementation: the product into a local static,
\* then the static addition into rop.
static_addmul_impl_0(rop, op1, op2, asizer, asize1, asize2, signr, sign1, sign2) ==
  static_addmul_impl_0_prod(rop, asizer, signr,
    static_mul_impl_0(static_int, op1, op2, asize1, asize2, sign1, sign2, FALSE))

\* A 1-limb kernel that adds the magnitudes whatever the signs.
static_addmul_impl_1_unsigned(rop, op1, op2, asizer, asize1, asize2, signr, sign1, sign2) ==
  LET p == dlimb_mul(op1.limbs[1], op2.limbs[1])
      s == limb_add_overflow(rop.limbs[1], p.lo)
  IN  IF p.hi # 0 THEN [hint |-> 3, rop |-> rop]
      ELSE IF s.cy # 0 THEN [hint |-> 2, rop |-> rop]
      ELSE [hint |-> 0, rop |-> [rop EXCEPT !.size = IF s.res = 0 THEN 0
                                                    ELSE IF signr # 0 THEN signr
                                                    ELSE IF sign1 # sign2 THEN -1 ELSE 1,
                                            !.limbs[1] = s.res]]

\* static_addmul_impl, 1-limb optimisation.
static_addmul_impl_1(rop, op1, op2, asizer, asize1, asize2, signr, sign1, sign2) ==
  LET p == dlimb_mul(op1.limbs[1], op2.limbs[1])
      prod == p.lo
      sign_prod == IF sign1 # sign2 THEN -(IF prod # 0 THEN 1 ELSE 0)
                   ELSE (IF prod # 0 THEN 1 ELSE 0)
      s == limb_add_overflow(rop.limbs[1], prod)
  IN  IF p.hi # 0 THEN [hint |-> 3, rop |-> rop]
      ELSE IF signr = sign_prod
      THEN IF s.cy # 0 THEN [hint |-> 2, rop |-> rop]
           ELSE [hint |-> 0, rop |-> [rop EXCEPT !.size = signr, !.limbs[1] = s.res]]
      ELSE IF rop.limbs[1] >= prod
      THEN [hint |-> 0,
            rop |-> [rop EXCEPT !.size = IF rop.limbs[1] - prod = 0 THEN 0 ELSE signr,
                                !.limbs[1] = rop.limbs[1] - prod]]
      ELSE [hint |-> 0,
            rop |-> [rop EXCEPT !.size = sign_prod, !.limbs[1] = prod - rop.limbs[1]]]

\* The second half of the 2-limb static_addmul_impl: the addition of the
\* two-limb product prod, of size asize_prod and sign sign_prod, into rop.
static_addmul_impl_2_add(rop, asizer, signr, prod, asize_prod, sign_prod) ==
  IF signr = sign_prod
  THEN LET lo == limb_add_overflow(rop.limbs[1], prod[1])
           hi1 == limb_add_overflow(rop.limbs[2], prod[2])
           hi2 == limb_add_overflow(hi1.res, lo.cy)
       IN  IF hi1.cy # 0 \/ hi2.cy # 0 THEN [hint |-> 3, rop |-> rop]
           ELSE [hint |-> 0,
                 rop |-> [rop EXCEPT !.size = IF hi2.res # 0 THEN signr + signr ELSE signr,
                                     !.limbs = <<lo.res, hi2.res>>]]
  ELSE IF \/ asizer > asize_prod
          \/ (asizer = asize_prod /\ compare_limbs_2(rop.limbs, prod, asizer) >= 0)
  THEN LET lo == LimbSub(rop.limbs[1], prod[1])
           hi == LimbSub(LimbSub(rop.limbs[2], prod[2]),
                         IF rop.limbs[1] < prod[1] THEN 1 ELSE 0)
       IN  [hint |-> 0,
            rop |-> [rop EXCEPT !.size = IF hi # 0 THEN signr + signr
                                         ELSE IF lo # 0 THEN signr ELSE 0,
                                !.limbs = <<lo, hi>>]]
  ELSE LET lo == LimbSub(prod[1], rop.limbs[1])
           hi == LimbSub(LimbSub(prod[2], rop.limbs[2]),
                         IF prod[1] < rop.limbs[1] THEN 1 ELSE 0)
       IN  [hint |-> 0,
            rop |-> [rop EXCEPT !.size = IF hi # 0 THEN sign_prod + sign_prod ELSE sign_prod,
                                !.limbs = <<lo, hi>>]]

\* static_addmul_impl, 2-limb optimisation.
static_addmul_impl_2(rop, op1, op2, asizer, asize1, asize2, signr, sign1, sign2) ==
  LET sign_prod == IF sign1 # sign2 THEN -1 ELSE 1
  IN  IF asize1 = 0 \/ asize2 = 0 THEN [hint |-> 0, rop |-> rop]
      ELSE IF asize1 = 1 /\ asize2 = 1
      THEN LET p == dlimb_mul(op1.limbs[1], op2.limbs[1])
           IN  static_addmul_impl_2_add(rop, asizer, signr, <<p.lo, p.hi>>,
                 (asize1 + asize2) - (IF p.hi = 0 THEN 1 ELSE 0), sign_prod)
      ELSE IF asize1 = asize2 THEN [hint |-> 5, rop |-> rop]
      ELSE LET a == IF asize1 < asize2 THEN op2.limbs[1] ELSE op1.limbs[1]
               b == IF asize1 < asize2 THEN op2.limbs[2] ELSE op1.limbs[2]
               c == IF asize1 < asize2 THEN op1.limbs[1] ELSE op2.limbs[1]
               ca == dlimb_mul(c, a)
               cb == dlimb_mul(c, b)
               s == limb_add_overflow(cb.lo, ca.hi)
           IN  IF cb.hi # 0 \/ s.cy # 0 THEN [hint |-> 4, rop |-> rop]
               ELSE static_addmul_impl_2_add(rop, asizer, signr, <<ca.lo, s.res>>, 2, sign_prod)

\* static_addmul: [hint, rop]; hint 0 is success.  k is what the kernel
\* returned.
static_addmul_tail(k) ==
  IF static_addmul_algo = 0 /\ k.hint = 0
  THEN [hint |-> 0, rop |-> zero_unused_limbs(k.rop)]
  ELSE k

static_addmul(rop, op1, op2) ==
  static_addmul_tail(
    IF static_addmul_algo = 1
    THEN static_addmul_impl_1(rop, op1, op2, Abs(rop.size), Abs(op1.size), Abs(op2.size),
                              Sgn(rop.size), Sgn(op1.size), Sgn(op2.size))
    ELSE IF static_addmul_algo = 2
    THEN static_addmul_impl_2(rop, op1, op2, Abs(rop.size), Abs(op1.size), Abs(op2.size),
                              Sgn(rop.size), Sgn(op1.size), Sgn(op2.size))
    ELSE static_addmul_impl_0(rop, op1, op2, Abs(rop.size), Abs(op1.size), Abs(op2.size),
                              Sgn(rop.size), Sgn(op1.size), Sgn(op2.size)))

\* The tail of addmul(): the mpz call on the dynamic rop.
addmul_mpz(m, r, a, b, kernel, hint) ==
  [m |-> [m EXCEPT ![r] = mpz_addmul(m[r], mpz_view(m[a]), mpz_view(m[b]))],
   err |-> "none", kernel |-> kernel, hint |-> hint]

\* addmul() when all three are static: k is what static_addmul returned; on
\* failure rop is promoted to the hinted size.
addmul_static(m, r, a, b, k) ==
  IF k.hint = 0
  THEN [m |-> [m EXCEPT ![r] = k.rop], err |-> "none", kernel |-> "ok", hint |-> 0]
  ELSE addmul_mpz([m EXCEPT ![r] = promote(k.rop, k.hint)], r, a, b, "fail", k.hint)

\* addmul() on the objects m.
addmul(m, r, a, b) ==
  IF is_static(m[r]) /\ is_static(m[a]) /\ is_static(m[b])
  THEN addmul_static(m, r, a, b, static_addmul(m[r], m[a], m[b]))
  ELSE addmul_mpz(promote_if_static(m, r, 0), r, a, b, "none", 0)

----------------------------------------------------------------------------
(* Division *)

\* have_dlimb_div holds: 1 and 2 limbs are optimised.
static_div_algo == IF SSize = 1 THEN 1 ELSE IF SSize = 2 THEN 2 ELSE 0

RECURSIVE TrimSize(_, _)
\* The size left after dropping the zero top limbs ("while (size && !limb)").
TrimSize(limbs, n) ==
  IF n = 0 THEN 0
  ELSE IF BitAnd(limbs[n], GMP_NUMB_MASK) # 0 THEN n
  ELSE TrimSize(limbs, n - 1)

\* static_div_impl, mpn implementation.  Operands that overlap q or r are
\* copied to local buffers first, so the mpn calls see the values on entry.
static_div_impl_0(q, r, op1, op2, asize1, asize2, sign1, sign2) ==
  IF asize2 > asize1
  THEN [q |-> [q EXCEPT !.size = 0], r |-> op1]
  ELSE
    LET d == mpn_tdiv_qr(op1.limbs, asize1, op2.limbs, asize2)
        ql == WriteLimbs(q.limbs, 0, d.q)
        rl == WriteLimbs(r.limbs, 0, d.r)
        qs == TrimSize(ql, asize1 - asize2 + 1)
        rs == TrimSize(rl, asize2)
    IN  [q |-> [q EXCEPT !.size = IF sign1 # sign2 THEN -qs ELSE qs, !.limbs = ql],
         r |-> [r EXCEPT !.size = IF sign1 = -1 THEN -rs ELSE rs, !.limbs = rl]]

\* static_div_impl, 1-limb optimisation.
static_div_impl_1(q, r, op1, op2, asize1, asize2, sign1, sign2) ==
  LET n1 == BitAnd(op1.limbs[1], GMP_NUMB_MASK)
      n2 == BitAnd(op2.limbs[1], GMP_NUMB_MASK)
      q_ == n1 \div n2
      r_ == n1 % n2
      qs == IF q_ # 0 THEN 1 ELSE 0
      rs == IF r_ # 0 THEN 1 ELSE 0
  IN  [q |-> [q EXCEPT !.size = IF sign1 # sign2 THEN -qs ELSE qs, !.limbs[1] = q_],
       r |-> [r EXCEPT !.size = IF sign1 = -1 THEN -rs ELSE rs, !.limbs[1] = r_]]

\* static_div_impl, 2-limbs optimisation via dlimb_div.
static_div_impl_2(q, r, op1, op2, asize1, asize2, sign1, sign2) ==
  IF asize1 < 2 /\ asize2 < 2
  THEN LET q_ == op1.limbs[1] \div op2.limbs[1]
           r_ == op1.limbs[1] % op2.limbs[1]
           qs == IF q_ # 0 THEN 1 ELSE 0
           rs == IF r_ # 0 THEN 1 ELSE 0
       IN  [q |-> [q EXCEPT !.size = IF sign1 # sign2 THEN -qs ELSE qs, !.limbs = <<q_, 0>>],
            r |-> [r EXCEPT !.size = IF sign1 = -1 THEN -rs ELSE rs, !.limbs = <<r_, 0>>]]
  ELSE LET d == dlimb_div(op1.limbs[1], op1.limbs[2], op2.limbs[1], op2.limbs[2])
           qs == IF d.q2 # 0 THEN 2 ELSE IF d.q1 # 0 THEN 1 ELSE 0
           rs == IF d.r2 # 0 THEN 2 ELSE IF d.r1 # 0 THEN 1 ELSE 0
       IN  [q |-> [q EXCEPT !.size = IF sign1 # sign2 THEN -qs ELSE qs,
                            !.limbs = <<d.q1, d.q2>>],
            r |-> [r EXCEPT !.size = IF sign1 = -1 THEN -rs ELSE rs,
                            !.limbs = <<d.r1, d.r2>>]]

\* static_div: [q, r], the buffers left in q and r.
static_div(q, r, op1, op2) ==
  LET asize1 == Abs(op1.size)
      asize2 == Abs(op2.size)
      sign1 == Sgn(op1.size)
      sign2 == Sgn(op2.size)
      k == IF static_div_algo = 1
           THEN static_div_impl_1(q, r, op1, op2, asize1, asize2, sign1, sign2)
           ELSE IF static_div_algo = 2
           THEN static_div_impl_2(q, r, op1, op2, asize1, asize2, sign1, sign2)
           ELSE static_div_impl_0(q, r, op1, op2, asize1, asize2, sign1, sign2)
  IN  IF static_div_algo = 0
      THEN [q |-> zero_unused_limbs(k.q), r |-> zero_unused_limbs(k.r)]
      ELSE k

\* Truncated quotient and remainder of integers (mpz_tdiv_qr's contract).
TruncQuot(a, b) == Sgn(a) * Sgn(b) * (Abs(a) \div Abs(b))

TruncRem(a, b) == Sgn(a) * (Abs(a) % Abs(b))

mpz_tdiv_q(rop, m1, m2) ==
  mpz_of(rop, TruncQuot(Value(m1), Value(m2)), mpz_size(m1) - mpz_size(m2) + 1)

mpz_tdiv_r(rop, m1, m2) ==
  mpz_of(rop, TruncRem(Value(m1), Value(m2)), mpz_size(m2))

\* mp_integer::sign(), read through the common _mp_size member.
sign(n) == IF n.size # 0 THEN (IF n.size > 0 THEN 1 ELSE -1) ELSE 0

\* Argument checks that throw each other's error.
div_error_swapped(m, q, r, b) ==
  IF q = r THEN "zero_division_error"
  ELSE IF m[b].size = 0 THEN "invalid_argument"
  ELSE "none"

\* The argument checks at the head of div(): the error thrown, or "none".
div_error(m, q, r, b) ==
  IF q = r THEN "invalid_argument"
  ELSE IF sign(m[b]) = 0 THEN "zero_division_error"
  ELSE "none"

\* The objects m with the static buffers k written to q and r.
div_static(m, q, r, k) ==
  [m |-> [m EXCEPT ![q] = k.q, ![r] = k.r], err |-> "none", kernel |-> "ok", hint |-> 0]

\* The tail of div(): mpz_tdiv_qr on the dynamic q and r.
div_mpz(m, q, r, a, b) ==
  [m |-> [m EXCEPT ![q] = mpz_tdiv_q(m[q], mpz_view(m[a]), mpz_view(m[b])),
                   ![r] = mpz_tdiv_r(m[r], mpz_view(m[a]), mpz_view(m[b]))],
   err |-> "none", kernel |-> "none", hint |-> 0]

\* div() on the objects m: [m, err, kernel, hint].
div(m, q, r, a, b) ==
  IF div_error(m, q, r, b) # "none"
  THEN [m |-> m, err |-> div_error(m, q, r, b), kernel |-> "none", hint |-> 0]
  ELSE IF is_static(m[q]) /\ is_static(m[r]) /\ is_static(m[a]) /\ is_static(m[b])
  THEN div_static(m, q, r, static_div(m[q], m[r], m[a], m[b]))
  ELSE div_mpz(promote_if_static(promote_if_static(m, q, 0), r, 0), q, r, a, b)

----------------------------------------------------------------------------
(* Comparison *)

\* mpz_cmp by contract: the sign of the difference of the values.
mpz_cmp(m1, m2) == Sgn(Value(m1) - Value(m2))

\* operator==: two statics are compared by size and then limb by limb, each
\* limb and-ed with GMP_NUMB_BITS; any other pair goes through mpz_cmp.
operator_eq(a, b) ==
  IF is_static(a) /\ is_static(b)
  THEN /\ a.size = b.size
       /\ \A i \in 1..abs_size(a) :
            BitAnd(a.limbs[i], GMP_NUMB_BITS) = BitAnd(b.limbs[i], GMP_NUMB_BITS)
  ELSE mpz_cmp(mpz_view(a), mpz_view(b)) = 0

operator_neq(a, b) == ~operator_eq(a, b)

----------------------------------------------------------------------------
(* Copy, move, negate *)

\* integer_union copy constructor: the new object.
copy_ctor(other) ==
  IF is_static(other) THEN other ELSE mpz_init_set_cache(other)

\* A move constructor that leaves a dynamic source as it was.
move_ctor_keep(other) == [this |-> other, other |-> other]

\* integer_union move constructor: [this, other] after the call.
move_ctor(other) ==
  IF is_static(other) THEN [this |-> other, other |-> other]
  ELSE [this |-> other, other |-> static_int]

\* integer_union copy assignment (this and other distinct objects).
copy_assign(this, other) ==
  IF is_static(this) /\ is_static(other) THEN other
  ELSE IF is_static(this) THEN mpz_init_set_cache(other)
  ELSE IF is_static(other) THEN other
  ELSE mpz_set(this, other)

\* integer_union move assignment (this and other distinct objects):
\* [this, other] after the call.  Two dynamics are swapped.
move_assign(this, other) ==
  IF is_static(this) /\ is_static(other) THEN [this |-> other, other |-> other]
  ELSE IF is_static(this) THEN [this |-> other, other |-> static_int]
  ELSE IF is_static(other) THEN [this |-> other, other |-> other]
  ELSE [this |-> other, other |-> this]

----------------------------------------------------------------------------
(* The mpz cache and the ownership of the mpz structs.  An allocated mpz   *)
(* struct has an id; live is the set of ids allocated and not cleared,     *)
(* cache[k] is the list of the structs parked for an allocation of k       *)
(* limbs, each with the alloc it was parked with (its value is overwritten *)
(* by whoever takes it), and desc[i] is the id the dynamic object i owns,  *)
(* 0 for a static object.  p is the record of the three.                   *)

\* mpz_cache::max_size and mpz_cache::max_entries, scaled down.
max_size == 2

max_entries == 2

\* mpz_cache(): max_size empty vectors.
mpz_cache == [k \in 1..max_size |-> <<>>]

\* The id of a newly allocated struct: the lowest one not allocated.
FreshDesc(l) ==
  CHOOSE k \in 1..(Cardinality(l) + 1) :
    /\ k \notin l
    /\ \A j \in 1..(k - 1) : j \in l

\* mpz_clear of the struct id.
mpz_clear(p, id) == [p EXCEPT !.live = @ \ {id}]

\* mpz_cache::push of the struct id whose _mp_alloc is alloc.
mpz_cache_push(p, id, alloc) ==
  IF alloc = 0 \/ alloc > max_size \/ Len(p.cache[alloc]) >= max_entries
  THEN mpz_clear(p, id)
  ELSE [p EXCEPT !.cache[alloc] = Append(@, [id |-> id, alloc |-> alloc])]

\* A pop that takes the last struct parked for one limb, whatever the size
\* asked for.
mpz_cache_pop_first(p, size) ==
  IF Len(p.cache[1]) = 0
  THEN [p |-> [p EXCEPT !.live = @ \cup {FreshDesc(p.live)}],
        id |-> FreshDesc(p.live), alloc |-> Max(1, size)]
  ELSE [p |-> [p EXCEPT !.cache[1] = SubSeq(@, 1, Len(@) - 1)],
        id |-> p.cache[1][Len(p.cache[1])].id,
        alloc |-> p.cache[1][Len(p.cache[1])].alloc]


\* mpz_cache::pop(retval, size): [p, id, alloc], the struct handed out and
\* what is left; mpz_init_nlimbs allocates a new struct of size limbs, one
\* limb at least.
mpz_cache_pop(p, size) ==
  IF size = 0 \/ size > max_size \/ Len(p.cache[size]) = 0
  THEN [p |-> [p EXCEPT !.live = @ \cup {FreshDesc(p.live)}],
        id |-> FreshDesc(p.live), alloc |-> Max(1, size)]
  ELSE [p |-> [p EXCEPT !.cache[size] = SubSeq(@, 1, Len(@) - 1)],
        id |-> p.cache[size][Len(p.cache[size])].id,
        alloc |-> p.cache[size][Len(p.cache[size])].alloc]

\* mpz_init_cache(m_dy, nlimbs) for the object i, which owns what pop returns.
mpz_init_cache_desc(p, i, nlimbs) ==
  [mpz_cache_pop(p, nlimbs).p EXCEPT !.desc[i] = mpz_cache_pop(p, nlimbs).id]

\* A destroy_dynamic that leaves the struct with the object.
destroy_dynamic_kept(p, i, this) == mpz_cache_push(p, p.desc[i], this.alloc)

\* destroy_dynamic() of the dynamic object i: mpz_clear_cache, and the
\* object owns nothing.
destroy_dynamic(p, i, this) ==
  [mpz_cache_push(p, p.desc[i], this.alloc) EXCEPT !.desc[i] = 0]

\* ~integer_union() of the object i.
dtor_desc(p, i, this) == IF is_static(this) THEN p ELSE destroy_dynamic(p, i, this)

\* The number of limbs promote(nlimbs) asks the cache for.
promote_nlimbs(n, nlimbs) == IF nlimbs = 0 THEN mpz_size(get_mpz_view(n)) ELSE nlimbs

\* The object i after a call that took it from this to that without moving
\* structs between objects: promoted with nlimbs, it owns what the cache
\* handed out; made static, it gave its struct back; else nothing changed.
storage_desc(p, i, this, that, nlimbs) ==
  IF is_static(this) /\ is_dynamic(that) THEN mpz_init_cache_desc(p, i, promote_nlimbs(this, nlimbs))
  ELSE IF is_dynamic(this) /\ is_static(that) THEN destroy_dynamic(p, i, this)
  ELSE p

\* A copy constructor that copies the mpz struct members, pointer included.
copy_ctor_shallow(p, r, a, other) ==
  [p EXCEPT !.desc[r] = IF is_static(other) THEN 0 ELSE p.desc[a]]

\* Copy constructor of r from a: the struct of the new object r
\* (mpz_init_set_cache).
copy_ctor_desc(p, r, a, other) ==
  IF is_static(other) THEN [p EXCEPT !.desc[r] = 0]
  ELSE mpz_init_cache_desc(p, r, mpz_size(other))

\* Copy assignment to r: a static this takes a struct for a dynamic other,
\* a dynamic this keeps its struct (mpz_set) or gives it back.
copy_assign_desc(p, r, this, other) ==
  IF is_static(this) /\ is_dynamic(other) THEN mpz_init_cache_desc(p, r, mpz_size(other))
  ELSE IF is_dynamic(this) /\ is_static(other) THEN destroy_dynamic(p, r, this)
  ELSE p

\* Move constructor of r from a: the struct of a dynamic other goes to r.
move_ctor_desc(p, r, a, other) ==
  IF is_static(other) THEN [p EXCEPT !.desc[r] = 0]
  ELSE [p EXCEPT !.desc[r] = p.desc[a], !.desc[a] = 0]

\* A move assignment that drops the struct of a dynamic this.
move_assign_dropped(p, r, a, this, other) ==
  IF is_static(this) /\ is_static(other) THEN p
  ELSE IF is_static(this) THEN [p EXCEPT !.desc[r] = p.desc[a], !.desc[a] = 0]
  ELSE IF is_static(other) THEN [p EXCEPT !.desc[r] = 0]
  ELSE [p EXCEPT !.desc[r] = p.desc[a], !.desc[a] = p.desc[r]]

\* Move assignment of a to r: the struct goes to a static this, a dynamic
\* this gives its struct back for a static other, two dynamics swap structs.
move_assign_desc(p, r, a, this, other) ==
  IF is_static(this) /\ is_static(other) THEN p
  ELSE IF is_static(this) THEN [p EXCEPT !.desc[r] = p.desc[a], !.desc[a] = 0]
  ELSE IF is_static(other) THEN destroy_dynamic(p, r, this)
  ELSE [p EXCEPT !.desc[r] = p.desc[a], !.desc[a] = p.desc[r]]


\* mp_integer::negate.
negate(n) ==
  IF is_static(n) THEN [n EXCEPT !.size = -n.size]
  ELSE mpz_of(n, -Value(n), mpz_size(n))

----------------------------------------------------------------------------
(* Strings.  A string is a sequence of characters. *)

\* The digits mpz_get_str writes and mpz_set_str reads: for bases up to 36
\* digits and lower-case letters (upper-case letters are read as the same
\* digits); above 36 digits, upper-case letters, lower-case letters.
Digits36 ==
  << "0", "1", "2", "3", "4", "5", "6", "7", "8", "9",
     "a", "b", "c", "d", "e", "f", "g", "h", "i", "j", "k", "l", "m",
     "n", "o", "p", "q", "r", "s", "t", "u", "v", "w", "x", "y", "z" >>

Digits62 ==
  << "0", "1", "2", "3", "4", "5", "6", "7", "8", "9",
     "A", "B", "C", "D", "E", "F", "G", "H", "I", "J", "K", "L", "M",
     "N", "O", "P", "Q", "R", "S", "T", "U", "V", "W", "X", "Y", "Z",
     "a", "b", "c", "d", "e", "f", "g", "h", "i", "j", "k", "l", "m",
     "n", "o", "p", "q", "r", "s", "t", "u", "v", "w", "x", "y", "z" >>

DigitChar(d, base) == IF base <= 36 THEN Digits36[d + 1] ELSE Digits62[d + 1]

\* The digit a character stands for in the base, or the base itself when
\* the character is no digit.
DigitValue(c, base) ==
  IF \E i \in 1..62 : Digits62[i] = c
  THEN LET i == (CHOOSE j \in 1..62 : Digits62[j] = c) - 1
       IN  IF base <= 36 /\ i >= 36 THEN i - 26 ELSE i
  ELSE base

RECURSIVE DigitString(_, _)
\* The digits of v > 0 in the base, most significant first.
DigitString(v, base) ==
  IF v = 0 THEN <<>>
  ELSE Append(DigitString(v \div base, base), DigitChar(v % base, base))

\* mpz_get_str by contract.
mpz_get_str(base, m) ==
  LET v == Value(m)
  IN  IF v = 0 THEN <<"0">>
      ELSE IF v < 0 THEN <<"-">> \o DigitString(-v, base)
      ELSE DigitString(v, base)

\* mpz_to_str.
mpz_to_str(m, base) == mpz_get_str(base, m)

RECURSIVE DigitsValue(_, _)
DigitsValue(s, base) ==
  IF s = <<>> THEN 0
  ELSE DigitsValue(SubSeq(s, 1, Len(s) - 1), base) * base + DigitValue(s[Len(s)], base)

\* mpz_set_str by contract: [fail, value]; the string is an optional minus
\* sign and at least one digit of the base.
mpz_set_str(s, base) ==
  LET neg == s # <<>> /\ s[1] = "-"
      ds == IF neg THEN Tail(s) ELSE s
  IN  IF ds = <<>> \/ \E i \in 1..Len(ds) : DigitValue(ds[i], base) >= base
      THEN [fail |-> TRUE, value |-> 0]
      ELSE [fail |-> FALSE,
            value |-> IF neg THEN -DigitsValue(ds, base) ELSE DigitsValue(ds, base)]

\* mp_integer::to_string(base): [err, str].  The base is validated, and
\* mpz_to_str is called without it, that is with its default base 10.
to_string(n, base) ==
  IF base < 2 \/ base > 62 THEN [err |-> "invalid_argument", str |-> <<>>]
  ELSE [err |-> "none", str |-> mpz_to_str(mpz_view(n), 10)]

\* static_int::ctor_from_mpz: [fail_flag, st].
ctor_from_mpz(st, m) ==
  IF m.size > SSize \/ m.size < -SSize
  THEN [fail_flag |-> TRUE, st |-> [st EXCEPT !.size = 0]]
  ELSE [fail_flag |-> FALSE,
        st |-> [st EXCEPT !.size = m.size, !.limbs = WriteLimbs(st.limbs, 0, m.limbs)]]

\* The scratchpad of a constructor, as mpz_raii() leaves it.
mpz_raii == [fail_flag |-> FALSE, m_mpz |-> mpz_init_cache(0)]

\* The scratchpad mpz after its m_mpz was set to m and ctor_from_mpz(mpz)
\* ran: the flag is set when m is too large, and is never cleared.
ctor_from_mpz_raii(mpz, m) ==
  [fail_flag |-> mpz.fail_flag \/ ctor_from_mpz(static_int, m).fail_flag, m_mpz |-> m]

\* A constructor tail that goes dynamic without resetting the flag.
union_ctor_tail_noreset(mpz, st) ==
  IF mpz.fail_flag THEN [err |-> "none", n |-> mpz_init_set_cache(mpz.m_mpz), mpz |-> mpz]
  ELSE [err |-> "none", n |-> st, mpz |-> mpz]

\* The tail of the constructors of integer_union, after the static
\* construction left st and the scratchpad mpz: [err, n, mpz], n the
\* constructed object.
union_ctor_tail(mpz, st) ==
  IF mpz.fail_flag
  THEN [err |-> "none", n |-> mpz_init_set_cache(mpz.m_mpz),
        mpz |-> [mpz EXCEPT !.fail_flag = FALSE]]
  ELSE [err |-> "none", n |-> st, mpz |-> mpz]

\* A construction that went through the scratchpad mpz, set to m.
union_ctor_mpz(mpz, m) ==
  union_ctor_tail(ctor_from_mpz_raii(mpz, m), ctor_from_mpz(static_int, m).st)

\* A construction that threw: nothing is constructed, mpz is as it was.
union_ctor_throw(mpz) == [err |-> "invalid_argument", n |-> static_int, mpz |-> mpz]

\* integer_union(const char *, int) with the scratchpad mpz: [err, n, mpz].
string_ctor(mpz, s, base) ==
  IF mpz_set_str(s, base).fail THEN union_ctor_throw(mpz)
  ELSE union_ctor_mpz(mpz, mpz_of(mpz_init_cache(0), mpz_set_str(s, base).value, 0))

\* integer_union(double) with the scratchpad mpz: [err, n, mpz].  A double f
\* is given by whether it is finite and by its integral part, which is
\* what mpz_set_d stores.
float_ctor(mpz, f) ==
  IF ~f.finite THEN union_ctor_throw(mpz)
  ELSE union_ctor_mpz(mpz, mpz_of(mpz_init_cache(0), f.trunc, 0))

----------------------------------------------------------------------------
(* Construction from, and conversion to, the C++ integral types.  A        *)
(* platform P gives the widths of long and long long in bits; a type T is  *)
(* signed or unsigned and T.bits wide.  The 32-bit chunks of the           *)
(* conversion loops are half a long long, the 30-bit chunks of the signed  *)
(* constructor are two bits short of a long.                               *)

TMax(T) == IF T.signed THEN 2 ^ (T.bits - 1) - 1 ELSE 2 ^ T.bits - 1

TMin(T) == IF T.signed THEN -(2 ^ (T.bits - 1)) ELSE 0

ULong(P) == [signed |-> FALSE, bits |-> P.lbits]

Long(P) == [signed |-> TRUE, bits |-> P.lbits]

ULongLong(P) == [signed |-> FALSE, bits |-> P.llbits]

LongLong(P) == [signed |-> TRUE, bits |-> P.llbits]

\* 1ull << 32 in the conversion loops.
Chunk32(P) == 2 ^ (P.llbits \div 2)

\* 1l << 30 in the signed constructor.
Chunk30(P) == 2 ^ (P.lbits - 2)

\* A signed attempt_1limb_ctor without the guard on the negation of n.
attempt_1limb_ctor_unguarded(P, T, n) ==
  IF n = 0 THEN [ok |-> TRUE, st |-> static_int]
  ELSE IF n > 0 /\ n <= GMP_NUMB_MAX
  THEN [ok |-> TRUE, st |-> [static_int EXCEPT !.size = 1, !.limbs[1] = n]]
  ELSE IF T.signed /\ n < 0 /\ (-n) % (2 ^ (P.llbits - 1)) <= GMP_NUMB_MAX
  THEN [ok |-> TRUE,
        st |-> [static_int EXCEPT !.size = IF (-n) % (2 ^ (P.llbits - 1)) = 0 THEN 0 ELSE -1,
                                  !.limbs[1] = (-n) % (2 ^ (P.llbits - 1))]]
  ELSE [ok |-> FALSE, st |-> static_int]

\* static_int::attempt_1limb_ctor, unsigned and signed: [ok, st].
attempt_1limb_ctor(P, T, n) ==
  IF n = 0 THEN [ok |-> TRUE, st |-> static_int]
  ELSE IF ~T.signed
  THEN IF n <= GMP_NUMB_MAX
       THEN [ok |-> TRUE, st |-> [static_int EXCEPT !.size = 1, !.limbs[1] = n]]
       ELSE [ok |-> FALSE, st |-> static_int]
  ELSE IF n > 0 /\ n <= GMP_NUMB_MAX
  THEN [ok |-> TRUE, st |-> [static_int EXCEPT !.size = 1, !.limbs[1] = n]]
  ELSE IF n < 0 /\ n >= -TMax(LongLong(P)) /\ -n <= GMP_NUMB_MAX
  THEN [ok |-> TRUE, st |-> [static_int EXCEPT !.size = -1, !.limbs[1] = -n]]
  ELSE [ok |-> FALSE, st |-> static_int]

RECURSIVE static_int_uint_loop(_, _, _, _)
\* The loop of the constructor from an unsigned type wider than unsigned
\* long: out accumulates the unsigned-long chunks of n.
static_int_uint_loop(P, n, shifter, out) ==
  IF n = 0 THEN out
  ELSE static_int_uint_loop(P, n \div 2 ^ P.lbits, shifter * 2 ^ P.lbits,
                            out + (shifter * 2 ^ P.lbits) * (n % 2 ^ P.lbits))

RECURSIVE static_int_int_loop(_, _, _, _)
\* The loop of the constructor from a signed type wider than long: out
\* accumulates the 30-bit chunks of n (% and / truncate towards zero).
static_int_int_loop(P, n, shifter, out) ==
  IF n = 0 THEN out
  ELSE static_int_int_loop(P, TruncQuot(n, Chunk30(P)), shifter * Chunk30(P),
                           out + (shifter * Chunk30(P)) * TruncRem(n, Chunk30(P)))

\* The value the static_int(Int, mpz_raii &) constructors leave in mpz when
\* attempt_1limb_ctor fails.
static_int_mpz_value(P, T, n) ==
  IF ~T.signed
  THEN IF TMax(T) > TMax(ULong(P)) /\ n > TMax(ULong(P))
       THEN static_int_uint_loop(P, n \div 2 ^ P.lbits, 1, n % 2 ^ P.lbits)
       ELSE n
  ELSE IF (TMax(T) > TMax(Long(P)) \/ TMin(T) < TMin(Long(P)))
          /\ ~(n <= TMax(Long(P)) /\ n >= TMin(Long(P)))
       THEN static_int_int_loop(P, TruncQuot(n, Chunk30(P)), 1, TruncRem(n, Chunk30(P)))
       ELSE n

\* integer_union(T x) for an integral T with the scratchpad mpz:
\* [err, n, mpz], n the constructed object.
integral_ctor(mpz, P, T, n) ==
  IF attempt_1limb_ctor(P, T, n).ok THEN union_ctor_tail(mpz, attempt_1limb_ctor(P, T, n).st)
  ELSE union_ctor_mpz(mpz, mpz_of(mpz_init_cache(0), static_int_mpz_value(P, T, n), 0))

Overflow == [err |-> "overflow_error", val |-> 0]

Converted(v) == [err |-> "none", val |-> v]

\* mpz_get_ui: the low bits of the magnitude that fit an unsigned long.
mpz_get_ui(P, v) == Abs(v) % 2 ^ P.lbits

RECURSIVE conversion_uint_loop(_, _, _, _, _)
\* The loop of the dynamic conversion to unsigned types, in 32-bit chunks.
conversion_uint_loop(P, T, q, retval, multiplier) ==
  LET ull == mpz_get_ui(P, q) % Chunk32(P)
      ull_max == TMax(ULongLong(P))
  IN  IF ull > ull_max \div multiplier THEN Overflow
      ELSE IF retval > ull_max - ull * multiplier THEN Overflow
      ELSE IF TruncQuot(q, Chunk32(P)) = 0
      THEN (IF retval + ull * multiplier > TMax(T) THEN Overflow
            ELSE Converted(retval + ull * multiplier))
      ELSE IF multiplier > ull_max \div Chunk32(P) THEN Overflow
      ELSE conversion_uint_loop(P, T, TruncQuot(q, Chunk32(P)),
                                retval + ull * multiplier, multiplier * Chunk32(P))

\* Dynamic conversion to unsigned ints: [err, val].
conversion_impl_mpz_uint(P, T, m) ==
  IF Value(m) < 0 THEN Overflow
  ELSE IF Value(m) <= TMax(ULong(P))
  THEN (IF Value(m) <= TMax(T) THEN Converted(Value(m)) ELSE Overflow)
  ELSE conversion_uint_loop(P, T, Value(m), 0, 1)

RECURSIVE conversion_int_loop(_, _, _, _, _, _)
\* The loop of the dynamic conversion to signed ints.
conversion_int_loop(P, T, positive, q, retval, multiplier) ==
  LET ll == mpz_get_ui(P, q) % Chunk32(P)
      ll_max == TMax(LongLong(P))
      ll_min == TMin(LongLong(P))
  IN  IF \/ (positive /\ ll # 0 /\ multiplier > ll_max \div ll)
         \/ (~positive /\ ll # 0 /\ multiplier < TruncQuot(ll_min, ll))
      THEN Overflow
      ELSE IF \/ (positive /\ retval > ll_max - ll * multiplier)
              \/ (~positive /\ retval < ll_min - ll * multiplier)
      THEN Overflow
      ELSE IF TruncQuot(q, Chunk32(P)) = 0
      THEN (IF retval + ll * multiplier > TMax(T) \/ retval + ll * multiplier < TMin(T)
            THEN Overflow ELSE Converted(retval + ll * multiplier))
      ELSE IF \/ (positive /\ multiplier > ll_max \div Chunk32(P))
              \/ (~positive /\ multiplier < TruncQuot(ll_min, Chunk32(P)))
      THEN Overflow
      ELSE conversion_int_loop(P, T, positive, TruncQuot(q, Chunk32(P)),
                               retval + ll * multiplier, multiplier * Chunk32(P))

\* Dynamic conversion to signed ints: [err, val].
conversion_impl_mpz_int(P, T, m) ==
  IF Value(m) >= TMin(Long(P)) /\ Value(m) <= TMax(Long(P))
  THEN (IF Value(m) >= TMin(T) /\ Value(m) <= TMax(T) THEN Converted(Value(m)) ELSE Overflow)
  ELSE conversion_int_loop(P, T, Value(m) > 0, Value(m), 0, IF Value(m) > 0 THEN 1 ELSE -1)

\* Static conversion to unsigned ints.
conversion_impl_static_uint(P, T, n) ==
  IF n.size = 0 THEN Converted(0)
  ELSE IF n.size = 1
  THEN (IF BitAnd(n.limbs[1], GMP_NUMB_MASK) > TMax(T) THEN Overflow
        ELSE Converted(BitAnd(n.limbs[1], GMP_NUMB_MASK)))
  ELSE IF n.size < 0 THEN Overflow
  ELSE conversion_impl_mpz_uint(P, T, get_mpz_view(n))

\* A static conversion to signed ints that rejects the most negative value
\* of T.
conversion_impl_static_int_strict(P, T, n) ==
  IF n.size = 0 THEN Converted(0)
  ELSE IF n.size = 1
  THEN (IF BitAnd(n.limbs[1], GMP_NUMB_MASK) > TMax(T) THEN Overflow
        ELSE Converted(BitAnd(n.limbs[1], GMP_NUMB_MASK)))
  ELSE IF n.size = -1
  THEN (IF -BitAnd(n.limbs[1], GMP_NUMB_MASK) <= TMin(T) THEN Overflow
        ELSE Converted(-BitAnd(n.limbs[1], GMP_NUMB_MASK)))
  ELSE conversion_impl_mpz_int(P, T, get_mpz_view(n))

\* Static conversion to signed ints.
conversion_impl_static_int(P, T, n) ==
  IF n.size = 0 THEN Converted(0)
  ELSE IF n.size = 1
  THEN (IF BitAnd(n.limbs[1], GMP_NUMB_MASK) > TMax(T) THEN Overflow
        ELSE Converted(BitAnd(n.limbs[1], GMP_NUMB_MASK)))
  ELSE IF n.size = -1 /\ BitAnd(n.limbs[1], GMP_NUMB_MASK) <= TMax(LongLong(P))
  THEN (IF -BitAnd(n.limbs[1], GMP_NUMB_MASK) < TMin(T) THEN Overflow
        ELSE Converted(-BitAnd(n.limbs[1], GMP_NUMB_MASK)))
  ELSE conversion_impl_mpz_int(P, T, get_mpz_view(n))

\* operator T() for a non-bool integral T: [err, val].
conversion(P, T, n) ==
  IF is_static(n)
  THEN (IF T.signed THEN conversion_impl_static_int(P, T, n)
        ELSE conversion_impl_static_uint(P, T, n))
  ELSE (IF T.signed THEN conversion_impl_mpz_int(P, T, n)
        ELSE conversion_impl_mpz_uint(P, T, n))

----------------------------------------------------------------------------
(* Shift *)

static_mul_2exp_algo == IF SSize = 1 THEN 1 ELSE IF SSize = 2 THEN 2 ELSE 0

\* mpn_lshift of the n lowest limbs of data by 0 < rs < GMP_NUMB_BITS bits:
\* the n shifted limbs r and the bits shifted out, cy.
mpn_lshift(data, n, rs) ==
  [r |-> ToLimbs(LimbsValue(data, n) * 2 ^ rs, n),
   cy |-> (LimbsValue(data, n) * 2 ^ rs) \div LimbBase ^ n]

RECURSIVE copy_limbs(_, _, _, _, _, _)
\* copy_limbs(n, n + asize, rop + ls), from the lowest limb up, limbs i to
\* asize - 1 still to go: out is rop's buffer so far, and the source is out
\* itself when rop and n are one object (overlap), else data.
copy_limbs(out, data, overlap, i, asize, ls) ==
  IF i >= asize THEN out
  ELSE copy_limbs([out EXCEPT ![ls + i + 1] = IF overlap THEN out[i + 1] ELSE data[i + 1]],
                  data, overlap, i + 1, asize, ls)

\* std::fill of the ls lowest limbs with zero.
fill_low(limbs, ls) == [i \in 1..Len(limbs) |-> IF i <= ls THEN 0 ELSE limbs[i]]

\* The shifted limbs go to rop, the vacated low limbs are zeroed and the
\* size is set: the end of both successful branches of the mpn kernel.
static_mul_2exp_impl_0_out(rop, limbs, ls, asize, sgn) ==
  [ok |-> TRUE,
   rop |-> [rop EXCEPT !.limbs = fill_low(limbs, ls),
                       !.size = IF sgn = -1 THEN -asize ELSE asize]]

\* static_mul_2exp_impl, mpn implementation, for a nonzero n and s > 0: sh is
\* what mpn_lshift returns for n and rs.
static_mul_2exp_impl_0_shift(rop, n, overlap, asize, sgn, ls, rs, sh) ==
  IF asize + ls < SSize
  THEN IF rs # 0
       THEN static_mul_2exp_impl_0_out(rop,
              WriteLimbs(WriteLimbs(rop.limbs, ls, sh.r), asize + ls, <<sh.cy>>),
              ls, asize + ls + (IF sh.cy # 0 THEN 1 ELSE 0), sgn)
       ELSE static_mul_2exp_impl_0_out(rop,
              copy_limbs(rop.limbs, n.limbs, overlap, 0, asize, ls), ls, asize + ls, sgn)
  ELSE IF asize + ls = SSize
  THEN IF rs # 0
       THEN IF sh.cy # 0 THEN [ok |-> FALSE, rop |-> rop]
            ELSE static_mul_2exp_impl_0_out(rop, WriteLimbs(rop.limbs, ls, sh.r),
                                            ls, asize + ls, sgn)
       ELSE static_mul_2exp_impl_0_out(rop,
              copy_limbs(rop.limbs, n.limbs, overlap, 0, asize, ls), ls, asize + ls, sgn)
  ELSE [ok |-> FALSE, rop |-> rop]

\* static_mul_2exp_impl, mpn implementation: [ok, rop].  overlap: rop and n
\* are one object.
static_mul_2exp_impl_0(rop, n, s, overlap) ==
  IF s = 0 \/ n.size = 0 THEN [ok |-> TRUE, rop |-> rop]
  ELSE static_mul_2exp_impl_0_shift(rop, n, overlap, Abs(n.size), Sgn(n.size),
         s \div GMP_NUMB_BITS, s % GMP_NUMB_BITS,
         mpn_lshift(n.limbs, Abs(n.size), IF s % GMP_NUMB_BITS = 0 THEN 1 ELSE s % GMP_NUMB_BITS))

\* A 1-limb kernel that writes the wrapped limb before it reports failure.
static_mul_2exp_impl_1_late(rop, n, s, overlap) ==
  LET l == BitAnd(n.limbs[1], GMP_NUMB_MASK)
  IN  IF s = 0 \/ l = 0 THEN [ok |-> TRUE, rop |-> rop]
      ELSE IF s >= GMP_NUMB_BITS \/ l \div 2 ^ (GMP_NUMB_BITS - s) # 0
      THEN [ok |-> FALSE, rop |-> [rop EXCEPT !.limbs[1] = (l * 2 ^ s) % LimbBase]]
      ELSE [ok |-> TRUE, rop |-> [rop EXCEPT !.limbs[1] = l * 2 ^ s, !.size = n.size]]

\* static_mul_2exp_impl, 1-limb optimisation.
static_mul_2exp_impl_1(rop, n, s, overlap) ==
  LET l == BitAnd(n.limbs[1], GMP_NUMB_MASK)
  IN  IF s = 0 \/ l = 0 THEN [ok |-> TRUE, rop |-> rop]
      ELSE IF s >= GMP_NUMB_BITS \/ l \div 2 ^ (GMP_NUMB_BITS - s) # 0
      THEN [ok |-> FALSE, rop |-> rop]
      ELSE [ok |-> TRUE, rop |-> [rop EXCEPT !.limbs[1] = l * 2 ^ s, !.size = n.size]]

\* An end of the 2-limb kernel that does not look at the bits shifted out
\* of hi.
static_mul_2exp_impl_2_shift_unchecked(rop, sgn, lo, hi, s) ==
  LET h == (BitAnd(hi, GMP_NUMB_MASK) * 2 ^ s
              + BitAnd(lo, GMP_NUMB_MASK) \div 2 ^ (GMP_NUMB_BITS - s)) % LimbBase
      l == BitAnd(BitAnd(lo, GMP_NUMB_MASK) * 2 ^ s, GMP_NUMB_MASK)
  IN  [ok |-> TRUE,
       rop |-> [rop EXCEPT !.limbs = <<l, h>>,
                           !.size = IF sgn = -1 THEN -(1 + (IF h # 0 THEN 1 ELSE 0))
                                    ELSE 1 + (IF h # 0 THEN 1 ELSE 0)]]

\* The end of the 2-limb kernel: the limbs lo and hi shifted by 0 < s <
\* GMP_NUMB_BITS bits go to rop.
static_mul_2exp_impl_2_shift(rop, sgn, lo, hi, s) ==
  IF BitAnd(hi, GMP_NUMB_MASK) \div 2 ^ (GMP_NUMB_BITS - s) # 0
  THEN [ok |-> FALSE, rop |-> rop]
  ELSE LET h == (BitAnd(hi, GMP_NUMB_MASK) * 2 ^ s
                   + BitAnd(lo, GMP_NUMB_MASK) \div 2 ^ (GMP_NUMB_BITS - s)) % LimbBase
           l == BitAnd(BitAnd(lo, GMP_NUMB_MASK) * 2 ^ s, GMP_NUMB_MASK)
       IN  [ok |-> TRUE,
            rop |-> [rop EXCEPT !.limbs = <<l, h>>,
                                !.size = IF sgn = -1 THEN -(1 + (IF h # 0 THEN 1 ELSE 0))
                                         ELSE 1 + (IF h # 0 THEN 1 ELSE 0)]]

\* static_mul_2exp_impl, 2-limb optimisation.  A shift by GMP_NUMB_BITS moves
\* the low limb of rop, not of n, to the high limb.
static_mul_2exp_impl_2(rop, n, s, overlap) ==
  IF s = 0 \/ n.size = 0 THEN [ok |-> TRUE, rop |-> rop]
  ELSE IF s >= 2 * GMP_NUMB_BITS THEN [ok |-> FALSE, rop |-> rop]
  ELSE IF s = GMP_NUMB_BITS
  THEN IF Abs(n.size) = 2 THEN [ok |-> FALSE, rop |-> rop]
       ELSE [ok |-> TRUE,
             rop |-> [rop EXCEPT !.limbs = <<0, rop.limbs[1]>>,
                                 !.size = IF Sgn(n.size) = -1 THEN -2 ELSE 2]]
  ELSE IF s > GMP_NUMB_BITS
  THEN IF Abs(n.size) = 2 THEN [ok |-> FALSE, rop |-> rop]
       ELSE static_mul_2exp_impl_2_shift(rop, Sgn(n.size), 0, n.limbs[1], s - GMP_NUMB_BITS)
  ELSE static_mul_2exp_impl_2_shift(rop, Sgn(n.size), n.limbs[1], n.limbs[2], s)

\* static_mul_2exp_impl by static size: [ok, rop].
static_mul_2exp_impl(rop, n, s, overlap) ==
  IF static_mul_2exp_algo = 1 THEN static_mul_2exp_impl_1(rop, n, s, overlap)
  ELSE IF static_mul_2exp_algo = 2 THEN static_mul_2exp_impl_2(rop, n, s, overlap)
  ELSE static_mul_2exp_impl_0(rop, n, s, overlap)

\* static_mul_2exp: the kernel's result is dropped; k is what it returned.
static_mul_2exp(k) ==
  IF static_mul_2exp_algo = 0 THEN [ok |-> k.ok, rop |-> zero_unused_limbs(k.rop)] ELSE k

\* The public mul_2exp(rop, n, s): its body is empty, no object is written.
mul_2exp(m, r, n, s) == m

----------------------------------------------------------------------------
(* The state machine.  x holds four integer objects; an operation is       *)
(* called on objects named by their indices (an index used twice is the    *)
(* same object passed twice).  old is x before the call, call names the    *)
(* operation and its arguments and ret is what the call returned.          *)

Objs == 1..4

\* The limb values the initial operands are built from.
LimbVals == {0, 1, 2 ^ (GMP_NUMB_BITS - 1), LimbBase - 1}

\* Every static integer of SSize limbs with limbs in LimbVals and a zero tail.
StaticInts ==
  { n \in { [alloc |-> s_alloc, size |-> s, limbs |-> l] :
              s \in (-SSize)..SSize, l \in [1..SSize -> LimbVals] } :
      /\ Abs(n.size) > 0 => n.limbs[Abs(n.size)] # 0
      /\ \A i \in (Abs(n.size) + 1)..SSize : n.limbs[i] = 0 }

\* A static zero whose limbs hold what an earlier, larger value left there
\* (possible only above opt_size, where unused limbs need not be zero).
StaleZero ==
  IF SSize <= opt_size THEN static_int
  ELSE [static_int EXCEPT !.limbs = [i \in 1..SSize |-> GMP_NUMB_MAX]]

\* A freshly allocated dynamic integer holding v.
DynInt(v) == mpz_of(mpz_init_cache(NumLimbs(Abs(v))), v, 0)

\* Values of dynamic operands: around zero and around the static capacity.
DynVals ==
  LET c == LimbBase ^ SSize
  IN  {0, 1, -1, c - 1, 1 - c, c, -c, c * LimbBase - 1}

DynInts == { DynInt(v) : v \in DynVals }

\* Values of the operands of the general specification.
GenVals ==
  LET c == LimbBase ^ SSize
  IN  {0, 1, -1, LimbBase - 1, LimbBase ^ 2 - 1, 1 - LimbBase ^ 2, c - 1, c}

\* The static integer holding v, as the constructors leave it.
StaticOf(v) ==
  [alloc |-> s_alloc, size |-> Sgn(v) * NumLimbs(Abs(v)), limbs |-> ToLimbs(Abs(v), SSize)]

GenInts ==
  { StaticOf(v) : v \in { w \in GenVals : NumLimbs(Abs(w)) <= SSize } }
    \cup { DynInt(v) : v \in GenVals }

NoType == [signed |-> FALSE, bits |-> 0]

NoPlatform == [lbits |-> 0, llbits |-> 0]

NoCall == [op |-> "none", r |-> 0, a |-> 0, b |-> 0, q |-> 0, s |-> 0,
           P |-> NoPlatform, T |-> NoType, n |-> 0]

NoRet == [err |-> "none", kernel |-> "none", flag |-> FALSE, hint |-> 0, str |-> <<>>,
          val |-> 0, asserts |-> TRUE]

\* The constructors that keep a thread-local scratchpad: the generic one
\* for an integral type, the generic one for double, the one from strings.
CtorKinds == {"integral", "double", "string"}


\* Operands in objects 1 and 2, result objects in 3 and 4.
InitObjs(Ops1, Ops2, Res3, Res4) ==
  /\ \E o1 \in Ops1, o2 \in Ops2, r3 \in Res3, r4 \in Res4 : x = <<o1, o2, r3, r4>>
  /\ old = x
  /\ call = NoCall
  /\ ret = NoRet
  /\ pc = "ready"
  /\ desc = [i \in Objs |-> IF is_dynamic(x[i]) THEN i ELSE 0]
  /\ cache = mpz_cache
  /\ live = { i \in Objs : is_dynamic(x[i]) }
  /\ tls_mpz = [k \in CtorKinds |-> mpz_raii]

\* The cache and the structs owned before the call.
Pool == [desc |-> desc, cache |-> cache, live |-> live]

\* The call leaves the cache and the ownership p.
SetPool(p) ==
  /\ desc' = p.desc
  /\ cache' = p.cache
  /\ live' = p.live

\* The call c returns rt and leaves the objects m and the ownership p.
DoneD(c, m, rt, p) ==
  /\ x' = m
  /\ old' = x
  /\ call' = c
  /\ ret' = rt
  /\ pc' = "done"
  /\ SetPool(p)
  /\ UNCHANGED <<SSize, tls_mpz>>

\* A constructor call on the object r: the integer r held is destroyed, and
\* a dynamic new one takes a struct for its limbs (mpz_init_set_cache).
ctor_desc(p, r, this, that) ==
  IF is_dynamic(that) THEN mpz_init_cache_desc(dtor_desc(p, r, this), r, mpz_size(that))
  ELSE dtor_desc(p, r, this)

\* The constructor c of the kind k ran on the object r and returned o,
\* having asserted what `asserted` tells; a throw constructs nothing.
Constructed(c, r, k, o, rt, asserted, next) ==
  /\ x' = IF o.err = "none" THEN [x EXCEPT ![r] = o.n] ELSE x
  /\ old' = x
  /\ call' = c
  /\ ret' = [rt EXCEPT !.err = o.err, !.asserts = asserted]
  /\ pc' = next
  /\ tls_mpz' = [tls_mpz EXCEPT ![k] = o.mpz]
  /\ SetPool(IF o.err = "none" THEN ctor_desc(Pool, r, x[r], o.n) ELSE Pool)
  /\ UNCHANGED SSize

\* What the call c that took the objects from xo to m and returned rt did
\* to the cache: add and sub promote rop with SSize + 1 limbs, mul and
\* addmul with the size hint, div promotes q, then r; a constructor that
\* threw constructed nothing; the other calls change no storage class.
call_desc(p, c, xo, m, rt) ==
  IF c.op \in {"add", "sub"} THEN storage_desc(p, c.r, xo[c.r], m[c.r], SSize + 1)
  ELSE IF c.op \in {"mul", "addmul"} THEN storage_desc(p, c.r, xo[c.r], m[c.r], rt.hint)
  ELSE IF c.op = "div"
  THEN IF rt.err # "none" THEN p
       ELSE storage_desc(storage_desc(p, c.q, xo[c.q], m[c.q], 0), c.r, xo[c.r], m[c.r], 0)
  ELSE IF c.op \in {"ctor", "from_string"}
  THEN IF rt.err # "none" THEN p ELSE ctor_desc(p, c.r, xo[c.r], m[c.r])
  ELSE p

\* The call c returns rt and leaves the objects m.
Done(c, m, rt) == DoneD(c, m, rt, call_desc(Pool, c, x, m, rt))

\* The call c returns what o holds: the objects, the error thrown, what
\* the static kernel did and the size hint it gave.
Returned(c, o) ==
  Done(c, o.m, [NoRet EXCEPT !.err = o.err, !.kernel = o.kernel, !.hint = o.hint])

Add(r, a, b) ==
  /\ pc = "ready"
  /\ Returned([NoCall EXCEPT !.op = "add", !.r = r, !.a = a, !.b = b], add(x, r, a, b))

Sub(r, a, b) ==
  /\ pc = "ready"
  /\ Returned([NoCall EXCEPT !.op = "sub", !.r = r, !.a = a, !.b = b], sub(x, r, a, b))

Mul(r, a, b) ==
  /\ pc = "ready"
  /\ Returned([NoCall EXCEPT !.op = "mul", !.r = r, !.a = a, !.b = b], mul(x, r, a, b))

Addmul(r, a, b) ==
  /\ pc = "ready"
  /\ Returned([NoCall EXCEPT !.op = "addmul", !.r = r, !.a = a, !.b = b], addmul(x, r, a, b))

\* div(q, r, a, b); a throw leaves every object as it was.
Div(q, r, a, b) ==
  /\ pc = "ready"
  /\ Returned([NoCall EXCEPT !.op = "div", !.q = q, !.r = r, !.a = a, !.b = b],
              div(x, q, r, a, b))

\* a == b.
Eq(a, b) ==
  /\ pc = "ready"
  /\ Done([NoCall EXCEPT !.op = "eq", !.a = a, !.b = b], x,
          [NoRet EXCEPT !.flag = operator_eq(x[a], x[b])])

\* a != b.
Neq(a, b) ==
  /\ pc = "ready"
  /\ Done([NoCall EXCEPT !.op = "neq", !.a = a, !.b = b], x,
          [NoRet EXCEPT !.flag = operator_neq(x[a], x[b])])

\* A new integer is default-constructed in object r.
DefaultCtor(r) ==
  /\ pc = "ready"
  /\ Done([NoCall EXCEPT !.op = "ctor", !.r = r], [x EXCEPT ![r] = static_int], NoRet)

\* A new integer is copy-constructed in object r from object a.
CopyCtor(r, a) ==
  /\ pc = "ready"
  /\ r # a
  /\ DoneD([NoCall EXCEPT !.op = "copy_ctor", !.r = r, !.a = a],
           [x EXCEPT ![r] = copy_ctor(x[a])], NoRet,
           copy_ctor_desc(dtor_desc(Pool, r, x[r]), r, a, x[a]))

\* Object r is copy-assigned from object a (self-assignment returns at once).
CopyAssign(r, a) ==
  /\ pc = "ready"
  /\ DoneD([NoCall EXCEPT !.op = "copy_assign", !.r = r, !.a = a],
           IF r = a THEN x ELSE [x EXCEPT ![r] = copy_assign(x[r], x[a])], NoRet,
           IF r = a THEN Pool ELSE copy_assign_desc(Pool, r, x[r], x[a]))

\* A new integer is move-constructed in object r from object a.
MoveCtor(r, a) ==
  /\ pc = "ready"
  /\ r # a
  /\ LET o == move_ctor(x[a])
     IN  DoneD([NoCall EXCEPT !.op = "move_ctor", !.r = r, !.a = a],
               [x EXCEPT ![r] = o.this, ![a] = o.other], NoRet,
               move_ctor_desc(dtor_desc(Pool, r, x[r]), r, a, x[a]))

\* Object r is move-assigned from object a (self-assignment returns at once).
MoveAssign(r, a) ==
  /\ pc = "ready"
  /\ LET o == move_assign(x[r], x[a])
     IN  DoneD([NoCall EXCEPT !.op = "move_assign", !.r = r, !.a = a],
               IF r = a THEN x ELSE [x EXCEPT ![r] = o.this, ![a] = o.other], NoRet,
               IF r = a THEN Pool ELSE move_assign_desc(Pool, r, a, x[r], x[a]))

Negate(a) ==
  /\ pc = "ready"
  /\ Done([NoCall EXCEPT !.op = "negate", !.a = a], [x EXCEPT ![a] = negate(x[a])], NoRet)

\* mul_2exp(r, a, s).
Mul2Exp(r, a, s) ==
  /\ pc = "ready"
  /\ Done([NoCall EXCEPT !.op = "mul_2exp", !.r = r, !.a = a, !.s = s],
          mul_2exp(x, r, a, s), NoRet)

\* a.to_string(base): the string is kept in ret.
ToStr(a, base) ==
  /\ pc = "ready"
  /\ LET o == to_string(x[a], base)
     IN  /\ x' = x
         /\ old' = x
         /\ call' = [NoCall EXCEPT !.op = "to_string", !.a = a, !.s = base]
         /\ ret' = [NoRet EXCEPT !.err = o.err, !.str = o.str]
         /\ pc' = "str"
         /\ UNCHANGED <<SSize, desc, cache, live, tls_mpz>>

\* A new integer is constructed in object r from the string to_string
\* returned and the base it was called with; a throw constructs nothing.
FromString(r) ==
  /\ pc = "str"
  /\ ret.err = "none"
  /\ r # call.a
  /\ Constructed([call EXCEPT !.op = "from_string", !.r = r], r, "string",
                 string_ctor(tls_mpz["string"], ret.str, call.s), ret,
                 mpz_set_str(ret.str, call.s).fail \/ ~tls_mpz["string"].fail_flag, "done")

\* integer_union::promote(nlimbs) on the static object a; the objects before
\* it are kept in old until the demotion that follows.
UnionPromote(a, nlimbs) ==
  /\ pc \in {"ready", "done"}
  /\ is_static(x[a])
  /\ x' = [x EXCEPT ![a] = promote(x[a], nlimbs)]
  /\ old' = x
  /\ call' = [NoCall EXCEPT !.op = "union_promote", !.a = a, !.s = nlimbs]
  /\ ret' = NoRet
  /\ pc' = "promoted"
  /\ SetPool(storage_desc(Pool, a, x[a], promote(x[a], nlimbs), nlimbs))
  /\ UNCHANGED <<SSize, tls_mpz>>

\* integer_union::demote() on the dynamic object a, right after its
\* promotion (old still holds the objects before the promotion) or on its own.
Demote(a) ==
  /\ pc \in {"ready", "done", "promoted"}
  /\ is_dynamic(x[a])
  /\ x' = [x EXCEPT ![a] = demote(x[a]).n]
  /\ old' = IF pc = "promoted" /\ call.a = a THEN old ELSE x
  /\ call' = [NoCall EXCEPT !.op = IF pc = "promoted" /\ call.a = a
                                   THEN "promote_demote" ELSE "demote",
                            !.a = a, !.s = IF pc = "promoted" /\ call.a = a THEN call.s ELSE 0]
  /\ ret' = [NoRet EXCEPT !.flag = demote(x[a]).ok]
  /\ pc' = "done"
  /\ SetPool(storage_desc(Pool, a, x[a], demote(x[a]).n, 0))
  /\ UNCHANGED <<SSize, tls_mpz>>

\* a.promote(), the public member; a throw leaves a as it was.
Promote(a) ==
  /\ pc \in {"ready", "done"}
  /\ x' = [x EXCEPT ![a] = mp_integer_promote(x[a]).n]
  /\ old' = x
  /\ call' = [NoCall EXCEPT !.op = "promote", !.a = a]
  /\ ret' = [NoRet EXCEPT !.err = mp_integer_promote(x[a]).err]
  /\ pc' = "done"
  /\ SetPool(storage_desc(Pool, a, x[a], mp_integer_promote(x[a]).n, 0))
  /\ UNCHANGED <<SSize, tls_mpz>>

\* A new integer is constructed in object r from the value n of type T.
Construct(r, P, T, n) ==
  /\ pc = "ready"
  /\ Constructed([NoCall EXCEPT !.op = "ctor_int", !.r = r, !.P = P, !.T = T, !.n = n], r,
                 "integral", integral_ctor(tls_mpz["integral"], P, T, n), NoRet,
                 ~tls_mpz["integral"].fail_flag, "constructed")

\* A new integer is constructed in object r from the double f.
ConstructFloat(r, f) ==
  /\ pc = "ready"
  /\ Constructed([NoCall EXCEPT !.op = "ctor_float", !.r = r, !.n = f.trunc], r, "double",
                 float_ctor(tls_mpz["double"], f), NoRet, ~tls_mpz["double"].fail_flag, "done")

\* static_cast<T>(a); a throw returns no value.
Convert(a, P, T) ==
  /\ pc = "ready"
  /\ Done([NoCall EXCEPT !.op = "convert", !.a = a, !.P = P, !.T = T], x,
          [NoRet EXCEPT !.err = conversion(P, T, x[a]).err, !.val = conversion(P, T, x[a]).val])

\* The integer just constructed from a value of type T is converted to T.
ConvertBack ==
  /\ pc = "constructed"
  /\ Done([call EXCEPT !.op = "ctor_convert", !.a = call.r], x,
          [NoRet EXCEPT !.err = conversion(call.P, call.T, x[call.r]).err,
                        !.val = conversion(call.P, call.T, x[call.r]).val])

\* A static kernel ran on the static objects of the call c and returned k:
\* the buffer it left in rop and its success flag or size hint.
KernelBool(c, k) ==
  Done(c, [x EXCEPT ![c.r] = k.rop],
       [NoRet EXCEPT !.flag = k.ok, !.kernel = IF k.ok THEN "ok" ELSE "fail"])

\* The same for a kernel with assertions: asserted is whether all those on
\* its path held.
KernelAsserted(c, k, asserted) ==
  Done(c, [x EXCEPT ![c.r] = k.rop],
       [NoRet EXCEPT !.flag = k.ok, !.kernel = IF k.ok THEN "ok" ELSE "fail",
                     !.asserts = asserted])


KernelHint(c, k) ==
  Done(c, [x EXCEPT ![c.r] = k.rop],
       [NoRet EXCEPT !.hint = k.hint, !.kernel = IF k.hint = 0 THEN "ok" ELSE "fail"])

\* static_addsub<true>(rop, op1, op2) on three static objects.
StaticAdd(r, a, b) ==
  /\ pc = "ready"
  /\ is_static(x[r]) /\ is_static(x[a]) /\ is_static(x[b])
  /\ KernelAsserted([NoCall EXCEPT !.op = "static_add", !.r = r, !.a = a, !.b = b],
                    static_addsub(TRUE, x[r], x[a], x[b]),
                    static_addsub_asserts(TRUE, x[a], x[b]))

\* static_addsub<false>(rop, op1, op2).
StaticSub(r, a, b) ==
  /\ pc = "ready"
  /\ is_static(x[r]) /\ is_static(x[a]) /\ is_static(x[b])
  /\ KernelAsserted([NoCall EXCEPT !.op = "static_sub", !.r = r, !.a = a, !.b = b],
                    static_addsub(FALSE, x[r], x[a], x[b]),
                    static_addsub_asserts(FALSE, x[a], x[b]))

\* static_mul(rop, op1, op2).
StaticMul(r, a, b) ==
  /\ pc = "ready"
  /\ is_static(x[r]) /\ is_static(x[a]) /\ is_static(x[b])
  /\ KernelHint([NoCall EXCEPT !.op = "static_mul", !.r = r, !.a = a, !.b = b],
                static_mul(x[r], x[a], x[b], r = a \/ r = b))

\* static_addmul(rop, op1, op2).
StaticAddmul(r, a, b) ==
  /\ pc = "ready"
  /\ is_static(x[r]) /\ is_static(x[a]) /\ is_static(x[b])
  /\ KernelHint([NoCall EXCEPT !.op = "static_addmul", !.r = r, !.a = a, !.b = b],
                static_addmul(x[r], x[a], x[b]))

\* static_mul_2exp_impl(rop, n, s) followed by the end of static_mul_2exp.
StaticMul2Exp(r, a, s) ==
  /\ pc = "ready"
  /\ is_static(x[r]) /\ is_static(x[a])
  /\ KernelBool([NoCall EXCEPT !.op = "static_mul_2exp", !.r = r, !.a = a, !.s = s],
                static_mul_2exp(static_mul_2exp_impl(x[r], x[a], s, r = a)))

\* mpz_init_cache(m, size) for a new struct m kept in the first empty
\* object, r: r holds what the cache handed out; ret.val is its alloc.
\* No more structs are allocated than overfill one vector of the cache.
CachePop(r, size) ==
  /\ pc \in {"ready", "done"}
  /\ is_static(x[r])
  /\ \A j \in 1..(r - 1) : is_dynamic(x[j])
  /\ Cardinality(mpz_cache_pop(Pool, size).p.live) <= max_entries + 1
  /\ DoneD([NoCall EXCEPT !.op = "pop", !.r = r, !.n = size],
           [x EXCEPT ![r] = [alloc |-> mpz_cache_pop(Pool, size).alloc, size |-> 0,
                             limbs |-> <<>>]],
           [NoRet EXCEPT !.val = mpz_cache_pop(Pool, size).alloc],
           mpz_init_cache_desc(Pool, r, size))

\* mpz_clear_cache(m) for the struct m the object r holds; r is empty again.
CachePush(r) ==
  /\ pc \in {"ready", "done"}
  /\ is_dynamic(x[r])
  /\ DoneD([NoCall EXCEPT !.op = "push", !.r = r, !.n = x[r].alloc],
           [x EXCEPT ![r] = static_int], NoRet, destroy_dynamic(Pool, r, x[r]))


\* ~integer_union() of the integer in object r; the object is empty after it.
Destroy(r) ==
  /\ pc = "ready"
  /\ DoneD([NoCall EXCEPT !.op = "dtor", !.r = r], [x EXCEPT ![r] = static_int], NoRet,
           dtor_desc(Pool, r, x[r]))

\* The caller goes on to its next call.
Return ==
  /\ pc # "ready"
  /\ pc' = "ready"
  /\ old' = x
  /\ call' = NoCall
  /\ ret' = NoRet
  /\ UNCHANGED <<SSize, x, desc, cache, live, tls_mpz>>


\* The argument patterns of a three-argument operation: distinct objects,
\* rop the same object as an operand, and both operands the same object.
Triples == {<<3, 1, 2>>, <<1, 1, 2>>, <<2, 1, 2>>, <<3, 1, 1>>, <<1, 1, 1>>}

\* The argument patterns <<q, r, op1, op2>> of div, the last with q and r
\* the same object.
Quads ==
  {<<3, 4, 1, 2>>, <<4, 3, 1, 2>>, <<1, 2, 1, 2>>, <<2, 1, 1, 2>>, <<1, 3, 1, 2>>,
   <<3, 4, 1, 1>>, <<3, 3, 1, 2>>}

Bases == 1..63

InitAdd ==
  /\ SSize \in SSizes
  /\ InitObjs(StaticInts \cup DynInts, StaticInts \cup DynInts,
              {StaleZero, DynInt(-1)}, {static_int})

NextAdd == \E t \in Triples : Add(t[1], t[2], t[3])

SpecAdd == InitAdd /\ [][NextAdd]_vars

NextSub == \E t \in Triples : Sub(t[1], t[2], t[3])

SpecSub == InitAdd /\ [][NextSub]_vars

NextMul == \E t \in Triples : Mul(t[1], t[2], t[3])

SpecMul == InitAdd /\ [][NextMul]_vars

NextDiv == \E t \in Quads : Div(t[1], t[2], t[3], t[4])

SpecDiv == InitAdd /\ [][NextDiv]_vars

InitEq ==
  /\ SSize \in SSizes
  /\ InitObjs(StaticInts \cup DynInts, StaticInts \cup DynInts, {static_int}, {static_int})

NextEq ==
  \/ \E a \in 1..2, b \in 1..2 : Eq(a, b)
  \/ \E a \in 1..2, b \in 1..2 : Neq(a, b)

SpecEq == InitEq /\ [][NextEq]_vars

NextMove ==
  \/ \E r \in 1..2, a \in 1..2 : MoveCtor(r, a)
  \/ \E r \in 1..2, a \in 1..2 : MoveAssign(r, a)

SpecMove == InitEq /\ [][NextMove]_vars

InitStr ==
  /\ SSize \in SSizes
  /\ InitObjs(StaticInts \cup DynInts, {static_int}, {static_int, DynInt(1)}, {static_int})

NextStr ==
  \/ \E b \in Bases : ToStr(1, b)
  \/ FromString(3)

SpecStr == InitStr /\ [][NextStr]_vars

\* Shift counts up to one bit more than a static integer holds.
ShiftCounts == 0..(SSize * GMP_NUMB_BITS + 1)

NextShift == \E r \in {1, 3}, s \in ShiftCounts : Mul2Exp(r, 1, s)

SpecShift == InitStr /\ [][NextShift]_vars

\* The general specification: every operation, on a sample of operands.
Init ==
  /\ SSize \in SSizes
  /\ InitObjs(GenInts, GenInts, {StaleZero, DynInt(-1)}, {static_int})

Next ==
  \/ \E r \in Objs : DefaultCtor(r)
  \/ \E r \in 1..3, a \in 1..2 : CopyCtor(r, a)
  \/ \E r \in 1..3, a \in 1..2 : CopyAssign(r, a)
  \/ \E r \in 1..3, a \in 1..2 : MoveCtor(r, a)
  \/ \E r \in 1..3, a \in 1..2 : MoveAssign(r, a)
  \/ \E a \in 1..2 : Negate(a)
  \/ \E t \in Triples : Add(t[1], t[2], t[3])
  \/ \E t \in Triples : Sub(t[1], t[2], t[3])
  \/ \E t \in Triples : Mul(t[1], t[2], t[3])
  \/ \E t \in Triples : Addmul(t[1], t[2], t[3])
  \/ \E t \in Quads : Div(t[1], t[2], t[3], t[4])
  \/ \E a \in 1..3 : Promote(a)
  \/ \E a \in 1..2, b \in 1..2 : Eq(a, b)
  \/ \E a \in 1..2, b \in 1..2 : Neq(a, b)
  \/ \E r \in {1, 3}, s \in ShiftCounts : Mul2Exp(r, 1, s)
  \/ \E b \in {2, 10, 62} : ToStr(1, b)
  \/ FromString(3)

Spec == Init /\ [][Next]_vars

\* Calls whose result object is also an operand.
AliasTriples == {<<1, 1, 1>>, <<1, 1, 2>>, <<2, 1, 2>>}

AliasQuads == {<<1, 2, 1, 2>>, <<2, 1, 1, 2>>, <<1, 3, 1, 2>>, <<3, 1, 1, 2>>,
               <<2, 3, 1, 2>>, <<3, 2, 1, 2>>, <<1, 3, 1, 1>>}

NextAlias ==
  \/ \E t \in AliasTriples : Add(t[1], t[2], t[3])
  \/ \E t \in AliasTriples : Mul(t[1], t[2], t[3])
  \/ \E t \in AliasQuads : Div(t[1], t[2], t[3], t[4])

SpecAlias == InitAdd /\ [][NextAlias]_vars

\* addmul: the accumulator in object 3 (or an operand, when aliased).
AddmulTriples == {<<3, 1, 2>>, <<1, 1, 2>>, <<1, 2, 1>>, <<1, 1, 1>>, <<3, 1, 1>>}

InitAddmul ==
  /\ SSize \in SSizes
  /\ InitObjs(StaticInts \cup DynInts, StaticInts \cup DynInts,
              {StaleZero, StaticOf(LimbBase ^ SSize - 1), StaticOf(-1), DynInt(-1)},
              {static_int})

NextAddmul == \E t \in AddmulTriples : Addmul(t[1], t[2], t[3])

SpecAddmul == InitAddmul /\ [][NextAddmul]_vars

\* Promotion and demotion.  A product written over a larger value leaves a
\* static whose limbs above its size are not zero (above opt_size).
PromoteHints == 0..(SSize + 2)

InitStorage ==
  /\ SSize \in SSizes
  /\ InitObjs(StaticInts \cup DynInts, {StaticOf(0), StaticOf(1), StaticOf(-1)},
              {StaticOf(LimbBase ^ SSize - 1)}, {static_int})

\* The calls go on for as long as no struct is parked in the cache.
NextStorage ==
  \/ cache = mpz_cache /\ Mul(3, 1, 2)
  \/ \E a \in {1, 3}, h \in PromoteHints : cache = mpz_cache /\ UnionPromote(a, h)
  \/ \E a \in {1, 3} : cache = mpz_cache /\ Demote(a)
  \/ \E a \in {1, 3} : cache = mpz_cache /\ Promote(a)

SpecStorage == InitStorage /\ [][NextStorage]_vars

NextCopy ==
  \/ \E r \in 1..2, a \in 1..2 : CopyCtor(r, a)
  \/ \E r \in 1..2, a \in 1..2 : CopyAssign(r, a)

SpecCopy == InitEq /\ [][NextCopy]_vars

\* The platforms: long, long long and the limb all of one width, and long
\* twice and long long four times as wide as a limb.
Platforms ==
  {[lbits |-> GMP_NUMB_BITS, llbits |-> GMP_NUMB_BITS],
   [lbits |-> 2 * GMP_NUMB_BITS, llbits |-> 4 * GMP_NUMB_BITS]}

\* The integral types of a platform: one narrower than long, long and long
\* long, signed and unsigned.
Types(P) == { [signed |-> s, bits |-> b] : s \in BOOLEAN, b \in {P.lbits - 1, P.lbits, P.llbits} }

TypeValues(T) == TMin(T)..TMax(T)

\* Values around the ranges of the types, static where they fit and dynamic.
ConvVals == (-(2 ^ (4 * GMP_NUMB_BITS)) - 1)..(2 ^ (4 * GMP_NUMB_BITS) + 1)

ConvInts ==
  { IF NumLimbs(Abs(v)) <= SSize THEN StaticOf(v) ELSE DynInt(v) : v \in ConvVals }
    \cup { DynInt(v) : v \in ConvVals }

InitConv ==
  /\ SSize \in SSizes
  /\ InitObjs(StaticInts \cup DynInts \cup ConvInts, {static_int}, {static_int}, {static_int})

NextConv == \E P \in Platforms : \E T \in Types(P) : Convert(1, P, T)

SpecConv == InitConv /\ [][NextConv]_vars

InitCtor ==
  /\ SSize \in SSizes
  /\ InitObjs({static_int}, {static_int}, {static_int, DynInt(1)}, {static_int})

NextCtor ==
  \/ \E P \in Platforms : \E T \in Types(P) : \E n \in TypeValues(T) : Construct(3, P, T, n)
  \/ ConvertBack

SpecCtor == InitCtor /\ [][NextCtor]_vars

\* The cache on its own: structs are taken from it and given back to it.
\* Sizes asked for: none, those the cache keeps and one it does not keep.
PopSizes == 0..(max_size + 1)

InitCache ==
  /\ SSize = 1
  /\ InitObjs({static_int}, {static_int}, {static_int}, {static_int})

\* One struct more than a vector of the cache keeps.
CacheObjs == 1..(max_entries + 1)

NextCache ==
  \/ \E r \in CacheObjs, n \in PopSizes : CachePop(r, n)
  \/ \E r \in CacheObjs : CachePush(r)

SpecCache == InitCache /\ [][NextCache]_vars

\* Sequences of calls on three integers of one thread: constructions,
\* copies, moves, promotions, demotions, additions and destructions.
\* The values are 0, which fits a static integer, and LimbBase, which does
\* not; an addition runs while its result is one of them.
OwnObjs == 1..3

InitOwn ==
  /\ SSize = 1
  /\ InitObjs({static_int, DynInt(LimbBase)}, {static_int}, {static_int}, {static_int})

\* Constructions are from a long of two limbs.
OwnPlatform == [lbits |-> 2 * GMP_NUMB_BITS, llbits |-> 4 * GMP_NUMB_BITS]

OwnType == [signed |-> TRUE, bits |-> 2 * GMP_NUMB_BITS]

\* The calls go on while no more structs are allocated than there are
\* objects.
OwnGoing == Cardinality(live) <= Cardinality(OwnObjs)

NextOwn ==
  \/ \E r \in OwnObjs, n \in {0, LimbBase} : OwnGoing /\ Construct(r, OwnPlatform, OwnType, n)
  \/ \E r \in OwnObjs, a \in OwnObjs : OwnGoing /\ CopyCtor(r, a)
  \/ \E r \in OwnObjs, a \in OwnObjs : OwnGoing /\ CopyAssign(r, a)
  \/ \E r \in OwnObjs, a \in OwnObjs : OwnGoing /\ MoveCtor(r, a)
  \/ \E r \in OwnObjs, a \in OwnObjs : OwnGoing /\ MoveAssign(r, a)
  \/ \E a \in OwnObjs, h \in {0, SSize + 1} : OwnGoing /\ UnionPromote(a, h)
  \/ \E a \in OwnObjs : OwnGoing /\ Demote(a)
  \/ \E a \in OwnObjs : OwnGoing /\ Promote(a)
  \/ \E r \in OwnObjs, a \in OwnObjs, b \in OwnObjs :
       OwnGoing /\ Value(x[a]) + Value(x[b]) <= LimbBase /\ Add(r, a, b)
  \/ \E r \in OwnObjs : OwnGoing /\ Destroy(r)
  \/ OwnGoing /\ Return

SpecOwn == InitOwn /\ [][NextOwn]_vars

\* Sequences of constructions on one thread, from a long long, from a
\* double and from the strings to_string makes of objects 1 and 3, read back in
\* the base asked for: values of up to SSize limbs and of more, doubles that
\* are not finite, strings that are not numbers of the base.
FlagVals ==
  {0, 1, -1, LimbBase ^ SSize - 1, LimbBase ^ SSize, -(LimbBase ^ SSize)}

FlagType == [signed |-> TRUE, bits |-> 4 * GMP_NUMB_BITS]

FlagDoubles ==
  {[finite |-> FALSE, trunc |-> 0]} \cup { [finite |-> TRUE, trunc |-> v] : v \in FlagVals }

InitFlag ==
  /\ SSize \in SSizes
  /\ InitObjs({StaticOf(LimbBase ^ SSize - 1), DynInt(LimbBase ^ SSize)}, {static_int},
              {static_int}, {static_int})

NextFlag ==
  \/ \E n \in FlagVals : Construct(3, OwnPlatform, FlagType, n)
  \/ \E f \in FlagDoubles : ConstructFloat(3, f)
  \/ \E a \in {1, 3}, b \in {2, 10} : ToStr(a, b)
  \/ FromString(4)
  \/ Return

SpecFlag == InitFlag /\ [][NextFlag]_vars

\* The static kernels, on static operands in objects 1 and 2; rop is object
\* 3, holding the largest static value, or an operand.
KernelTriples == {<<3, 1, 2>>, <<1, 1, 2>>, <<1, 1, 1>>}

InitKernel ==
  /\ SSize \in SSizes
  /\ InitObjs(StaticInts, StaticInts, {StaticOf(LimbBase ^ SSize - 1)}, {static_int})

NextKernel ==
  \/ \E t \in KernelTriples : StaticAdd(t[1], t[2], t[3])
  \/ \E t \in KernelTriples : StaticSub(t[1], t[2], t[3])
  \/ \E t \in KernelTriples : StaticMul(t[1], t[2], t[3])
  \/ \E t \in KernelTriples : StaticAddmul(t[1], t[2], t[3])
  \/ \E r \in {1, 3}, s \in ShiftCounts : StaticMul2Exp(r, 1, s)

SpecKernel == InitKernel /\ [][NextKernel]_vars

----------------------------------------------------------------------------
(* Properties.  After a call, Rop is the result object, OpA and OpB are    *)
(* the values the operands had when the call was made.                     *)

Called(op) == pc = "done" /\ call.op = op

Rop == x[call.r]

OpA == Value(old[call.a])

OpB == Value(old[call.b])

\* The call was made with rop and both operands in static storage.
AllStatic == is_static(old[call.r]) /\ is_static(old[call.a]) /\ is_static(old[call.b])

\* C1: a == b is true exactly when a and b hold the same value, in every
\* combination of static and dynamic storage (two statics of the same size
\* that differ in a bit of an active limb are unequal), and a != b is its
\* negation.
EqualityIsValueEquality ==
  /\ Called("eq") => (ret.flag <=> Value(x[call.a]) = Value(x[call.b]))
  /\ Called("neq") => (ret.flag <=> Value(x[call.a]) # Value(x[call.b]))

\* C2: after mul_2exp(r, a, s) the object r holds a * 2^s, and a static r
\* whose shifted value does not fit in SSize limbs ends dynamic.
Mul2ExpShifts ==
  Called("mul_2exp") =>
    /\ Value(Rop) = OpA * 2 ^ call.s
    /\ (is_static(old[call.r]) /\ NumLimbs(Abs(OpA * 2 ^ call.s)) > SSize
          => is_dynamic(Rop))

\* C3: for static rop, a and b of every static size, sub(rop, a, b) leaves
\* rop equal to a - b, also when a is zero and when b has more limbs than a.
SubIsExact ==
  Called("sub") /\ AllStatic => Value(Rop) = OpA - OpB

\* C4: after add(rop, a, b) the value of rop is exactly a + b in every
\* combination of storage, and when all three are static and the sum needs
\* more than SSize limbs rop is promoted to dynamic.
AddIsExact ==
  Called("add") =>
    /\ Value(Rop) = OpA + OpB
    /\ (AllStatic /\ NumLimbs(Abs(OpA + OpB)) > SSize => is_dynamic(Rop))

\* C4 witness: an addition of statics whose sum needed one limb more than
\* SSize, and was promoted.
AddPromoted ==
  /\ Called("add") /\ AllStatic
  /\ ret.kernel = "fail"
  /\ NumLimbs(Abs(OpA + OpB)) = SSize + 1
  /\ is_dynamic(Rop)
  /\ Value(Rop) = OpA + OpB

\* C5: after mul(rop, a, b) the value of rop is exactly a * b, its sign is
\* sign(a) * sign(b), it is zero iff a or b is zero, and with SSize = 2 and
\* everything static a 1-limb by 1-limb product and a 2-limb by 1-limb
\* product with a zero third limb stay static.
MulIsExact ==
  Called("mul") =>
    /\ Value(Rop) = OpA * OpB
    /\ sign(Rop) = Sgn(OpA) * Sgn(OpB)
    /\ (sign(Rop) = 0 <=> (OpA = 0 \/ OpB = 0))
    /\ (/\ SSize = 2 /\ AllStatic
        /\ abs_size(old[call.a]) + abs_size(old[call.b]) \in {2, 3}
        /\ abs_size(old[call.a]) # 0 /\ abs_size(old[call.b]) # 0
        /\ NumLimbs(Abs(OpA * OpB)) <= 2
        => is_static(Rop))

\* C5 witness: with SSize = 2, a negative 2-limb by 1-limb product of two
\* limbs that stayed static.
MulTwoByOneStatic ==
  /\ Called("mul") /\ AllStatic /\ SSize = 2
  /\ abs_size(old[call.a]) + abs_size(old[call.b]) = 3
  /\ OpA * OpB < 0
  /\ is_static(Rop)
  /\ Rop.size = -2
  /\ Value(Rop) = OpA * OpB

\* C6: for b # 0 and distinct q and r, div(q, r, a, b) leaves q * b + r = a,
\* |r| < |b| and r = 0 or sign(r) = sign(a), in every storage combination
\* and static size.
DivIsTruncated ==
  Called("div") /\ call.q # call.r /\ OpB # 0 =>
    LET q == Value(x[call.q])
        r == Value(x[call.r])
    IN  /\ ret.err = "none"
        /\ q * OpB + r = OpA
        /\ Abs(r) < Abs(OpB)
        /\ (r = 0 \/ Sgn(r) = Sgn(OpA))

\* C6 witness: a negative dividend divided in the generic kernel with a
\* nonzero quotient and a nonzero (negative) remainder.
DivNegativeRemainder ==
  /\ Called("div") /\ ret.kernel = "ok" /\ SSize = 3
  /\ OpA < 0 /\ OpB > 0
  /\ Value(x[call.r]) < 0
  /\ Value(x[call.q]) < -1
  /\ Value(x[call.q]) * OpB + Value(x[call.r]) = OpA

\* C7: div with q and r the same object throws invalid-argument, div with
\* b zero (and q, r distinct) throws the zero-division error, and in both
\* cases no object changes value or storage.
DivErrorsLeaveOperands ==
  Called("div") =>
    /\ (call.q = call.r => ret.err = "invalid_argument")
    /\ (call.q # call.r /\ OpB = 0 => ret.err = "zero_division_error")
    /\ (call.q = call.r \/ OpB = 0 => x = old)

\* C7 witness: a division by zero with a static quotient object and a
\* dynamic dividend, which a successful call would have promoted.
DivByZeroThrown ==
  /\ Called("div") /\ ret.err = "zero_division_error"
  /\ is_static(x[call.q]) /\ is_dynamic(x[call.a])
  /\ x = old

StringRoundTrip ==
  Called("from_string") =>
    /\ ret.err = "none"
    /\ Value(Rop) = Value(x[call.a])

\* C10: every integer in static storage satisfies dtor_checks after any
\* construction, copy, move, negate, add, sub, mul or div.
StaticInvariants ==
  \A i \in Objs : is_static(x[i]) => dtor_checks(x[i])


\* C11: when the result object is also an operand, add and mul leave the sum
\* and the product of the old operand values (twice the old value for
\* add(a, a, a), its square for mul(a, a, a)), and div with the dividend or
\* the divisor being the quotient or remainder object leaves the truncated
\* quotient and remainder of the old operand values.
AliasedOperandsExact ==
  /\ (Called("add") /\ call.r \in {call.a, call.b}) => Value(Rop) = OpA + OpB
  /\ (Called("add") /\ call.r = call.a /\ call.r = call.b) => Value(Rop) = 2 * Value(old[call.r])
  /\ (Called("mul") /\ call.r \in {call.a, call.b}) => Value(Rop) = OpA * OpB
  /\ (Called("mul") /\ call.r = call.a /\ call.r = call.b)
       => Value(Rop) = Value(old[call.r]) * Value(old[call.r])
  /\ (/\ Called("div") /\ ret.err = "none"
      /\ {call.a, call.b} \cap {call.q, call.r} # {})
       => /\ Value(x[call.q]) = TruncQuot(OpA, OpB)
          /\ Value(x[call.r]) = TruncRem(OpA, OpB)

\* C11 witness: div(a, b, a, b) on full-size static operands returned a
\* nonzero quotient in a and a nonzero remainder in b.
AliasedDivDone ==
  /\ Called("div") /\ call.q = call.a /\ call.r = call.b /\ SSize = 3
  /\ is_static(old[call.a]) /\ Abs(old[call.a].size) = 3
  /\ Value(x[call.q]) # 0 /\ Value(x[call.r]) # 0


\* C12: addmul(rop, x, y) leaves rop equal to rop_old + x * y, and so
\* addmul(a, a, b), addmul(a, b, a) and addmul(a, a, a) leave a equal to what
\* the unfused sequence t = op1 * op2, a = a_old + t produces from the old
\* values; the operands that are not rop keep their values.
AddmulIsFused ==
  Called("addmul") =>
    /\ Value(Rop) = Value(old[call.r]) + OpA * OpB
    /\ \A i \in Objs : i # call.r => x[i] = old[i]

\* C12 witness: addmul(a, a, a) ran in the static kernel on a nonzero a.
AddmulAliasedStatic ==
  /\ Called("addmul") /\ call.r = call.a /\ call.r = call.b
  /\ ret.kernel = "ok" /\ Value(old[call.r]) < 0 /\ is_static(Rop)


CopyIsDeep ==
  (Called("copy_ctor") \/ Called("copy_assign")) =>
    /\ Value(x[call.r]) = Value(old[call.a])
    /\ is_static(x[call.r]) <=> is_static(old[call.a])
    /\ \A i \in Objs : i # call.r =>
         /\ x[i] = old[i]
         /\ desc[i] = IF is_dynamic(old[i]) THEN i ELSE 0
    /\ is_dynamic(x[call.r]) =>
         /\ desc[call.r] # 0
         /\ \A i \in Objs : i # call.r => desc[i] # desc[call.r]
    /\ is_static(x[call.r]) => desc[call.r] = 0
    /\ call.r = call.a => (x = old /\ desc[call.r] = IF is_dynamic(old[call.r]) THEN call.r ELSE 0)

\* C14 witness: a dynamic integer was copy-constructed from a dynamic one.
CopiedDynamic ==
  /\ Called("copy_ctor") /\ is_dynamic(old[call.a]) /\ is_dynamic(x[call.r])
  /\ Value(old[call.a]) < 0 /\ desc[call.a] # 0


\* C16: for every integral type T and every value n of T, the most negative
\* value of a signed T included, the integer constructed from n holds n, and
\* converting it back to T throws nothing and returns n, for every static
\* size and whether the integer is static or dynamic.
IntegralRoundTrip ==
  /\ pc = "constructed" => Value(x[call.r]) = call.n
  /\ Called("ctor_convert") => (ret.err = "none" /\ ret.val = call.n)

\* C16 witness: the most negative value of the widest signed type was
\* constructed, dynamic, and converted back.
MostNegativeRoundTrip ==
  /\ Called("ctor_convert") /\ call.T.signed /\ call.T.bits = 4 * GMP_NUMB_BITS
  /\ call.n = TMin(call.T) /\ is_dynamic(x[call.r]) /\ ret.val = call.n

\* C17: a conversion to a non-bool integral type T throws overflow_error iff
\* the value lies outside the range of T (every negative value does when T
\* is unsigned), and else returns the value; static and dynamic integers of
\* one value convert alike, and no object is changed.
ConversionOverflowIff ==
  Called("convert") =>
    /\ ret.err = "overflow_error" <=> (OpA < TMin(call.T) \/ OpA > TMax(call.T))
    /\ ret.err \in {"none", "overflow_error"}
    /\ ret.err = "none" => ret.val = OpA
    /\ x = old

\* C17 witness: a negative dynamic integer was converted to an unsigned type
\* and the conversion threw.
NegativeToUnsignedThrown ==
  /\ Called("convert") /\ ~call.T.signed /\ is_dynamic(old[call.a]) /\ OpA < 0
  /\ ret.err = "overflow_error"


\* Some static kernel was called.
KernelCalled ==
  pc = "done" /\ call.op \in {"static_add", "static_sub", "static_mul", "static_addmul",
                              "static_mul_2exp"}

\* C18: when a static kernel reports failure (false from the add, sub and
\* shift kernels, a nonzero hint from the mul and addmul kernels), rop has
\* the size and the limbs it had before the call, also when rop is an
\* operand; the other objects are as they were.
KernelFailureFrame ==
  (KernelCalled /\ ret.kernel = "fail") => x = old

\* C18 witness: the mpn addmul kernel failed in its addition, on a rop that
\* is also an operand.
AddmulKernelFailedAliased ==
  /\ KernelCalled /\ call.op = "static_addmul" /\ call.r = call.a
  /\ SSize = 3 /\ ret.hint = SSize + 1


\* Both operands of the call use all SSize limbs and have opposite signs.
FullOppositeSigns ==
  /\ Abs(old[call.a].size) = SSize /\ Abs(old[call.b].size) = SSize
  /\ Sgn(old[call.a].size) = -Sgn(old[call.b].size)

\* An operand of the call has the top bit of its limb SSize set.
TopBitOfAnOperand ==
  \/ old[call.a].limbs[SSize] >= 2 ^ (GMP_NUMB_BITS - 1)
  \/ old[call.b].limbs[SSize] >= 2 ^ (GMP_NUMB_BITS - 1)

\* C19: for static a and b that both use all SSize limbs and have opposite
\* signs, add(r, a, b) with a static r leaves r with the value a + b; with
\* SSize 1 and 2 the kernel succeeds and r stays static; the mpn kernel
\* (SSize 3 and more) succeeds, and r stays static, exactly when no operand
\* has the top bit of its top limb set, and else reports failure and r is
\* promoted.
FullOppositeAdd ==
  (Called("add") /\ AllStatic /\ FullOppositeSigns) =>
    /\ Value(Rop) = OpA + OpB
    /\ ret.kernel = "ok" <=> (static_add_algo # 0 \/ ~TopBitOfAnOperand)
    /\ ret.kernel = "ok" => is_static(Rop)
    /\ ret.kernel # "ok" => (ret.kernel = "fail" /\ is_dynamic(Rop))

\* C19 witness: three-limb operands of opposite signs, one with its top bit
\* set, were added; the kernel failed and the promoted r holds the sum.
FullOppositeAddPromoted ==
  /\ Called("add") /\ AllStatic /\ FullOppositeSigns /\ TopBitOfAnOperand
  /\ SSize = 3 /\ ret.kernel = "fail" /\ is_dynamic(Rop) /\ Value(Rop) = OpA + OpB

\* C19 as stated: the kernel succeeds and r stays static for every static
\* size, whatever the top bits.
FullOppositeAddStatic ==
  (Called("add") /\ AllStatic /\ FullOppositeSigns) =>
    /\ ret.kernel = "ok"
    /\ is_static(Rop)
    /\ Value(Rop) = OpA + OpB


\* C20: when the static mul kernel or the static addmul kernel returns a
\* nonzero hint h, the exact result (a * b, respectively rop + a * b) has at
\* most h limbs, so the mpz that promote(h) allocates holds the result of the
\* mpz call that follows.
HintBoundsResult ==
  /\ (KernelCalled /\ call.op = "static_mul" /\ ret.hint # 0)
       => /\ NumLimbs(Abs(OpA * OpB)) <= ret.hint
          /\ NumLimbs(Abs(OpA * OpB)) <= promote(x[call.r], ret.hint).alloc
  /\ (KernelCalled /\ call.op = "static_addmul" /\ ret.hint # 0)
       => /\ NumLimbs(Abs(Value(old[call.r]) + OpA * OpB)) <= ret.hint
          /\ NumLimbs(Abs(Value(old[call.r]) + OpA * OpB)) <= promote(x[call.r], ret.hint).alloc

\* C20 witness: the 2-limb addmul kernel met two 2-limb operands and
\* returned the hint 5; the exact result has 4 limbs.
AddmulHintReturned ==
  /\ KernelCalled /\ call.op = "static_addmul" /\ SSize = 2 /\ ret.hint = 5
  /\ NumLimbs(Abs(Value(old[call.r]) + OpA * OpB)) = 4


\* The call made was one of add, sub, mul and addmul.
ArithCalled == pc = "done" /\ call.op \in {"add", "sub", "mul", "addmul"}

\* C21: after add, sub, mul and addmul, rop is static exactly when rop and
\* both operands were static before the call and the static kernel
\* succeeded; a rop that was dynamic is still dynamic, a rop promoted
\* during the call is dynamic, and an operand that is not the object rop is
\* what it was, storage class, size and limbs.
StorageAfterArithmetic ==
  ArithCalled =>
    /\ is_static(Rop) <=> (AllStatic /\ ret.kernel = "ok")
    /\ is_dynamic(old[call.r]) => is_dynamic(Rop)
    /\ (AllStatic /\ ret.kernel = "fail") => is_dynamic(Rop)
    /\ \A i \in Objs \ {call.r} : x[i] = old[i]

\* addmul on three statics whose kernel failed: rop was promoted.
AddmulPromotedRop ==
  /\ Called("addmul")
  /\ AllStatic
  /\ ret.kernel = "fail"
  /\ is_dynamic(Rop)
  /\ call.r # call.a


\* A static shift kernel was called on a nonzero n with s > 0.
ShiftCalled == KernelCalled /\ call.op = "static_mul_2exp" /\ OpA # 0 /\ call.s > 0

\* C22: for a nonzero static n and s > 0, each static shift kernel returns
\* success exactly when |n| * 2^s is below 2^(SSize * GMP_NUMB_BITS); a shift
\* by SSize * GMP_NUMB_BITS or more fails, and a one-limb value shifted by
\* GMP_NUMB_BITS succeeds when SSize = 2.
ShiftSucceedsIffFits ==
  ShiftCalled =>
    /\ ret.flag <=> Abs(OpA) * 2 ^ call.s < LimbBase ^ SSize
    /\ call.s >= SSize * GMP_NUMB_BITS => ~ret.flag
    /\ (SSize = 2 /\ Abs(old[call.a].size) = 1 /\ call.s = GMP_NUMB_BITS) => ret.flag

\* The 2-limb kernel shifted a one-limb value by a whole limb and succeeded.
ShiftByLimbSucceeded ==
  /\ ShiftCalled
  /\ SSize = 2
  /\ Abs(old[call.a].size) = 1
  /\ call.s = GMP_NUMB_BITS
  /\ ret.flag


\* C23: when s = 0 or n is zero, each static shift kernel returns success
\* and leaves rop equal to n, also when rop is another object than n and
\* held another value before the call.
ShiftNothingCopies ==
  (KernelCalled /\ call.op = "static_mul_2exp" /\ (call.s = 0 \/ OpA = 0)) =>
    /\ ret.flag
    /\ Rop.size = old[call.a].size
    /\ Value(Rop) = OpA


\* C24: in the 2-limb shift kernel, for a one-limb n and GMP_NUMB_BITS <= s <
\* 2 * GMP_NUMB_BITS whose result fits, rop ends with low limb zero, high
\* limb the low limb of n shifted left by s - GMP_NUMB_BITS, and size 2 with
\* the sign of n; also for s = GMP_NUMB_BITS and when rop is another object
\* than n.
TwoLimbShiftByLimb ==
  (/\ KernelCalled /\ call.op = "static_mul_2exp"
   /\ SSize = 2
   /\ Abs(old[call.a].size) = 1
   /\ call.s >= GMP_NUMB_BITS /\ call.s < 2 * GMP_NUMB_BITS
   /\ Abs(OpA) * 2 ^ call.s < LimbBase ^ SSize) =>
    /\ Rop.limbs = <<0, old[call.a].limbs[1] * 2 ^ (call.s - GMP_NUMB_BITS)>>
    /\ Rop.size = 2 * Sgn(old[call.a].size)


\* C25: in the generic shift kernel (SSize >= 3), when rop is the object n, n
\* has two or more limbs, s is a nonzero multiple of GMP_NUMB_BITS and the
\* result fits, rop ends equal to the old n times 2^s.
InPlaceLimbShiftExact ==
  (/\ KernelCalled /\ call.op = "static_mul_2exp"
   /\ SSize >= 3
   /\ call.r = call.a
   /\ Abs(old[call.a].size) >= 2
   /\ call.s > 0 /\ call.s % GMP_NUMB_BITS = 0
   /\ Abs(OpA) * 2 ^ call.s < LimbBase ^ SSize) =>
    /\ ret.flag
    /\ Value(Rop) = OpA * 2 ^ call.s


\* The generic add kernel ran on two nonzero operands that passed the
\* overflow pre-check.
GenericAddRan ==
  /\ KernelCalled /\ call.op \in {"static_add", "static_sub"}
  /\ SSize >= 3
  /\ OpA # 0 /\ OpB # 0
  /\ ret.flag

\* C26: in the generic add kernel, for nonzero static operands that pass the
\* overflow pre-check, the limb addition of two operands of the same sign
\* carries only when the larger operand has fewer than SSize limbs, and the
\* limb subtraction of the smaller magnitude from the larger never borrows:
\* the three assertions of the kernel hold.
GenericAddAssertions ==
  GenericAddRan =>
    /\ ret.asserts
    /\ Abs(Rop.size) <= SSize

\* A same-sign addition carried into a limb the larger operand did not use.
GenericAddCarried ==
  /\ GenericAddRan
  /\ call.op = "static_add"
  /\ Sgn(OpA) = Sgn(OpB)
  /\ Abs(Rop.size) = Abs(old[call.a].size) + 1
  /\ Abs(old[call.a].size) >= Abs(old[call.b].size)
  /\ ret.asserts


\* The struct id is parked in the cache c exactly once.
ParkedOnce(c, id) ==
  Cardinality({ e \in { <<k, j>> : k \in 1..max_size, j \in 1..(max_entries + 1) } :
                  e[2] <= Len(c[e[1]]) /\ c[e[1]][e[2]].id = id }) = 1

\* The struct id is nowhere in the cache c.
NotParked(c, id) ==
  \A k \in 1..max_size : \A j \in 1..Len(c[k]) : c[k][j].id # id

\* C27: demote() on a dynamic integer returns false and leaves its value,
\* its storage class, its struct and the cache as they were exactly when the
\* value needs more than SSize limbs; else it returns true, the integer is
\* static with the same signed size, the same limbs below the size and zero
\* limbs above, it owns no struct, and the struct it owned was released
\* once: parked once in the cache, or cleared.
DemoteReleasesOnce ==
  [][(pc' = "done" /\ call'.op = "demote") =>
       IF NumLimbs(Abs(Value(x[call'.a]))) > SSize
       THEN /\ ~ret'.flag
            /\ x' = x /\ desc' = desc /\ cache' = cache /\ live' = live
       ELSE /\ ret'.flag
            /\ is_static(x'[call'.a])
            /\ x'[call'.a].size = x[call'.a].size
            /\ \A i \in 1..SSize :
                 x'[call'.a].limbs[i] = IF i <= Abs(x[call'.a].size)
                                        THEN x[call'.a].limbs[i] ELSE 0
            /\ desc'[call'.a] = 0
            /\ \A i \in Objs : desc'[i] # desc[call'.a]
            /\ NotParked(cache, desc[call'.a])
            /\ \/ ParkedOnce(cache', desc[call'.a]) /\ live' = live
               \/ NotParked(cache', desc[call'.a]) /\ live' = live \ {desc[call'.a]}
                    /\ cache' = cache]_vars

\* A demotion succeeded and the struct went to the cache.
DemotedAndParked ==
  /\ Called("demote")
  /\ ret.flag
  /\ is_dynamic(old[call.a]) /\ is_static(x[call.a])
  /\ Value(x[call.a]) < 0
  /\ cache # mpz_cache


\* Every struct parked in cache[k] has alloc k, and no vector holds more
\* than max_entries structs.
CacheBuckets ==
  \A k \in 1..max_size :
    /\ Len(cache[k]) <= max_entries
    /\ \A j \in 1..Len(cache[k]) : cache[k][j].alloc = k

\* pop(size) returned a struct of at least size limbs.
PopReturnsEnough == Called("pop") => (ret.val >= call.n /\ x[call.r].alloc >= call.n)

\* A push parks the struct exactly when its alloc is between 1 and max_size
\* and the vector for it is not full, and clears it otherwise.
PushParksOrClears ==
  (pc' = "done" /\ call'.op = "push") =>
    IF x[call'.r].alloc \in 1..max_size /\ Len(cache[x[call'.r].alloc]) < max_entries
    THEN /\ cache' = [cache EXCEPT ![x[call'.r].alloc] =
                        Append(@, [id |-> desc[call'.r], alloc |-> x[call'.r].alloc])]
         /\ live' = live
    ELSE /\ cache' = cache
         /\ live' = live \ {desc[call'.r]}

\* C28: after any sequence of pops and pushes, every struct parked in the
\* vector for k limbs has alloc k and no vector holds more than max_entries
\* structs; a pushed struct is parked exactly when its alloc is between 1
\* and max_size and its vector is not full, and is cleared otherwise;
\* pop(n) returns a struct with alloc >= n.
CacheInvariant ==
  /\ [](CacheBuckets /\ PopReturnsEnough)
  /\ [][PushParksOrClears]_vars

\* A struct was cleared because the vector for its alloc was full.
PushedOnFullBucket ==
  /\ Called("push")
  /\ call.n \in 1..max_size
  /\ Len(cache[call.n]) = max_entries
  /\ \A j \in 1..max_entries : cache[call.n][j].id \in live
  /\ Cardinality(live) = max_entries + Cardinality({ i \in Objs : desc[i] # 0 })
  /\ \A k \in 1..max_size : k # call.n => Len(cache[k]) = 0


\* The structs the objects own, and the structs parked in the cache.
Owned == { desc[i] : i \in Objs } \ {0}

Parked == UNION { { cache[k][j].id : j \in 1..Len(cache[k]) } : k \in 1..max_size }

\* The number of structs parked, each counted as often as it is parked.
RECURSIVE ParkedCount(_)
ParkedCount(k) == IF k = 0 THEN 0 ELSE Len(cache[k]) + ParkedCount(k - 1)

\* C29: after any sequence of constructions, copies, moves, promotions,
\* demotions, additions and destructions, every allocated struct is owned
\* by exactly one dynamic integer or parked exactly once in the cache, and
\* every other struct is freed: none is parked or freed while an integer
\* owns it, none is given back twice, none is allocated without an owner.
DescriptorsOwnedOnce ==
  /\ \A i \in Objs : is_dynamic(x[i]) <=> desc[i] # 0
  /\ \A i \in Objs, j \in Objs : (i # j /\ desc[i] # 0) => desc[i] # desc[j]
  /\ ParkedCount(max_size) = Cardinality(Parked)
  /\ Owned \cap Parked = {}
  /\ live = Owned \cup Parked

\* A move assignment of a static integer to a dynamic one gave the struct
\* back to the cache while another integer owns a struct.
MovedOverDynamic ==
  /\ Called("move_assign")
  /\ is_dynamic(old[call.r])
  /\ is_static(old[call.a])
  /\ is_static(x[call.r])
  /\ Parked # {}
  /\ Owned # {}


\* A constructor has returned an integer in the object call.r.
ConstructedInt ==
  /\ pc \in {"constructed", "done"}
  /\ call.op \in {"ctor_int", "ctor_float", "from_string"}
  /\ ret.err = "none"

\* C30: the fail flag of every construction scratchpad is false between
\* constructions, whether the last one stayed static, fell through to
\* dynamic storage or threw, so that no construction starts with the flag
\* set; and a constructed integer is dynamic exactly when its value needs
\* more than SSize limbs.
FailFlagClear ==
  /\ \A k \in CtorKinds : ~tls_mpz[k].fail_flag
  /\ ret.asserts
  /\ ConstructedInt => (is_dynamic(x[call.r]) <=> NumLimbs(Abs(Value(x[call.r]))) > SSize)

\* A construction fell through to dynamic storage into an object that the
\* construction before it had also made dynamic, and the object of the
\* strings is static.
FellThroughAgain ==
  /\ pc = "constructed"
  /\ call.op = "ctor_int"
  /\ is_dynamic(x[3])
  /\ is_dynamic(old[3])
  /\ Value(x[3]) = call.n
  /\ Value(x[4]) # 0
  /\ is_static(x[4])

====
